---- MODULE Spec2Model ----
(***************************************************************************)
(* A model of the apachelog package: the directive registry (format.go),   *)
(* the format compiler makeStateFn, the primitive readers, the extraction  *)
(* chain and the streaming Parser (access.go).                             *)
(*                                                                         *)
(* Strings are sequences of one-character strings.  Positions and offsets  *)
(* are 0-based as in Go; At(s, i) is Go's s[i].                            *)
(***************************************************************************)
EXTENDS Integers, Sequences, FiniteSets, TLC

VARIABLES
    r,        \* the io.Reader handed to the constructor: [isNil, data]
    p,        \* the Parser the constructor returned, with the constructor's error
    br,       \* the bytes the Parser's bufio.Reader has not delivered yet
    results,  \* what each Parse call returned, in call order
    heap,     \* number of AccessLogEntry values allocated so far
    regK0,    \* registry: the Format the round trip started from
    regS0,    \* registry: the string the round trip started from
    regK,     \* registry: the current Format value
    regS,     \* registry: the current string value
    regOps,   \* registry: the operations applied so far
    gen,      \* the values the input line was generated from, when it was
    rdIn,     \* readers: the arguments (line, pos, quoted) of the calls
    rdOut,    \* readers: what each reader call gave, in call order
    rfl,      \* the RequestFirstLine the accessors are called on
    rflCalls  \* the accessor calls made on rfl and what each returned

vars == <<r, p, br, results, heap, regK0, regS0, regK, regS, regOps, gen, rdIn, rdOut, rfl, rflCalls>>

readerVars == <<rdIn, rdOut>>

firstLineVars == <<rfl, rflCalls>>

parserVars == <<r, p, br, results, heap>>

registryVars == <<regK0, regS0, regK, regS, regOps>>

(***************************************************************************)
(* Go's string primitives, on sequences of characters.                     *)
(***************************************************************************)

\* s[i] with a 0-based index; the caller checks InRange first (Go panics otherwise)
At(s, i) == s[i + 1]

InRange(s, i) == i >= 0 /\ i < Len(s)

\* s[a:b]
Slice(s, a, b) == SubSeq(s, a + 1, b)

\* s[a:]
SliceFrom(s, a) == SubSeq(s, a + 1, Len(s))

\* strings.IndexAny(s, chars): 0-based index of the first character of s in cs, or -1
IndexAny(s, cs) ==
    IF \E i \in 1..Len(s) : s[i] \in cs
    THEN (CHOOSE i \in 1..Len(s) : s[i] \in cs /\ \A j \in 1..(i - 1) : s[j] \notin cs) - 1
    ELSE -1

\* strings.Index(s, c) for a one-character c
Index(s, c) == IndexAny(s, {c})

\* strings.HasPrefix
HasPrefix(s, pre) == Len(s) >= Len(pre) /\ SubSeq(s, 1, Len(pre)) = pre

\* strings.HasSuffix
HasSuffix(s, suf) == Len(s) >= Len(suf) /\ SubSeq(s, Len(s) - Len(suf) + 1, Len(s)) = suf

\* strings.TrimPrefix
TrimPrefix(s, pre) == IF HasPrefix(s, pre) THEN SliceFrom(s, Len(pre)) ELSE s

\* strings.TrimSuffix
TrimSuffix(s, suf) == IF HasSuffix(s, suf) THEN Slice(s, 0, Len(s) - Len(suf)) ELSE s

\* strings.Trim(s, cutset): every leading and trailing character of cs is removed
Trim(s, cs) ==
    IF \A i \in 1..Len(s) : s[i] \in cs
    THEN <<>>
    ELSE LET first == CHOOSE i \in 1..Len(s) : s[i] \notin cs /\ \A j \in 1..(i - 1) : s[j] \in cs
             last  == CHOOSE i \in 1..Len(s) : s[i] \notin cs /\ \A j \in (i + 1)..Len(s) : s[j] \in cs
         IN  SubSeq(s, first, last)

\* strings.Split(s, sep) for a one-character sep: Split("", " ") is [""], one empty token
RECURSIVE Split(_, _)
Split(s, sep) ==
    LET i == Index(s, sep)
    IN  IF i = -1 THEN <<s>>
        ELSE <<Slice(s, 0, i)>> \o Split(SliceFrom(s, i + 1), sep)

(***************************************************************************)
(* format.go: the Format kinds and the directive registry.                 *)
(***************************************************************************)

format_beg == 0
REMOTE_IP_ADDRESS == 1
LOCAL_IP_ADDRESS == 2
RESPONSE_SIZE == 3
RESPONSE_SIZE_CLF == 4
COOKIE == 5
ELAPSED_TIME == 6
ENV_VAR == 7
HEADER == 8
FILENAME == 9
REMOTE_HOST == 10
REQUEST_PROTO == 11
REMOTE_LOGNAME == 12
REQUEST_METHOD == 13
PORT == 14
PROCESS_ID == 15
QUERY_STRING == 16
REQUEST_FIRST_LINE == 17
STATUS == 18
TIME == 19
REMOTE_USER == 20
URL_PATH == 21
CANONICAL_SERVER_NAME == 22
SERVER_NAME == 23
BYTES_RECEIVED == 24
BYTES_SENT == 25
format_end == 26
UNKNOWN == 27

\* makeStateFn switches on this kind, which no Format constant of format.go
\* declares and no table entry names: it lies outside the table.
ELAPSED_TIME_IN_SEC == 28

\* the values a Format can take in the model
Formats == format_beg..ELAPSED_TIME_IN_SEC

\* the kinds strictly between format_beg and format_end
DefinedFormats == (format_beg + 1)..(format_end - 1)

\* var formats = [...]string{...}: indices that the literal does not set hold ""
formats ==
    [i \in format_beg..UNKNOWN |->
        CASE i = REMOTE_IP_ADDRESS     -> <<"%", "a">>
          [] i = LOCAL_IP_ADDRESS      -> <<"%", "A">>
          [] i = RESPONSE_SIZE         -> <<"%", "B">>
          [] i = RESPONSE_SIZE_CLF     -> <<"%", "b">>
          [] i = COOKIE                -> <<"%", "{", ".", ".", ".", "}", "C">>
          [] i = ELAPSED_TIME          -> <<"%", "D">>
          [] i = ENV_VAR               -> <<"%", "{", ".", ".", ".", "}", "e">>
          [] i = HEADER                -> <<"%", "{", ".", ".", ".", "}", "i">>
          [] i = FILENAME              -> <<"%", "f">>
          [] i = REMOTE_HOST           -> <<"%", "h">>
          [] i = REQUEST_PROTO         -> <<"%", "H">>
          [] i = REMOTE_LOGNAME        -> <<"%", "l">>
          [] i = REQUEST_METHOD        -> <<"%", "m">>
          [] i = PORT                  -> <<"%", "p">>
          [] i = PROCESS_ID            -> <<"%", "P">>
          [] i = QUERY_STRING          -> <<"%", "q">>
          [] i = REQUEST_FIRST_LINE    -> <<"%", "r">>
          [] i = STATUS                -> <<"%", "s">>
          [] i = TIME                  -> <<"%", "t">>
          [] i = REMOTE_USER           -> <<"%", "u">>
          [] i = URL_PATH              -> <<"%", "U">>
          [] i = CANONICAL_SERVER_NAME -> <<"%", "v">>
          [] i = SERVER_NAME           -> <<"%", "V">>
          [] i = BYTES_RECEIVED        -> <<"%", "I">>
          [] i = BYTES_SENT            -> <<"%", "O">>
          [] i = UNKNOWN               -> <<"U", "N", "K", "N", "O", "W", "N">>
          [] OTHER                     -> <<>>]

\* the string the table holds at index i
FormatsAt(i) == formats[i]

\* func (f Format) String()
FormatString(f) ==
    IF f > format_beg /\ f < format_end
    THEN FormatsAt(f + 1)
    ELSE FormatsAt(UNKNOWN)

\* func init(): formatsMapping[formats[i]] = i for i from format_beg+1 to
\* format_end-1, a later i overwriting an earlier one with the same string
formatsMapping ==
    [s \in {formats[i] : i \in DefinedFormats} |->
        CHOOSE i \in DefinedFormats :
            formats[i] = s /\ \A j \in DefinedFormats : formats[j] = s => j <= i]

\* func LookupFormat(format string) Format
LookupFormat(format) ==
    IF format \in DOMAIN formatsMapping THEN formatsMapping[format] ELSE UNKNOWN

(***************************************************************************)
(* access.go: errors, the format compiler and the constructors.            *)
(***************************************************************************)

\* an error value: its kind and the text the message quotes
Err(kind, arg) == [kind |-> kind, arg |-> arg]

\* the nil error
NoError == Err("nil", <<>>)

\* io.EOF
EOF == Err("EOF", <<>>)

\* CombinedLogFromat
CombinedLogFromat == <<"%", "h", " ", "%", "l", " ", "%", "u", " ", "%", "t", " ", "\"", "%", "r", "\"", " ", "%", "s", " ", "%", "b", " ", "\"", "%", "{", "R", "e", "f", "e", "r", "e", "r", "}", "i", "\"", " ", "\"", "%", "{", "U", "s", "e", "r", "-", "a", "g", "e", "n", "t", "}", "i", "\"">>

\* CommonLogFormat
CommonLogFormat == <<"%", "h", " ", "%", "l", " ", "%", "u", " ", "%", "t", " ", "\"", "%", "r", "\"", " ", "%", "s", " ", "%", "b">>

\* makeStateFn: "var quoted bool; if strings.HasPrefix(formatStr, "\"")"
TokenQuoted(tok) == HasPrefix(tok, <<"\"">>)

\* makeStateFn: formatStr after "formatStr = strings.Trim(formatStr, "\"")"
TokenFormatStr(tok) == IF TokenQuoted(tok) THEN Trim(tok, {"\""}) ELSE tok

\* the kinds for which the switch of makeStateFn returns a step function
StepKinds ==
    {REMOTE_HOST, REMOTE_LOGNAME, REMOTE_USER, TIME, REQUEST_FIRST_LINE, STATUS,
     RESPONSE_SIZE, RESPONSE_SIZE_CLF, ELAPSED_TIME_IN_SEC, HEADER}

\* the step function the switch of makeStateFn builds for kind f: the closure
\* captures quoted and, for HEADER, the name between "%{" and "}i"
MakeStep(f, quoted, formatStr) ==
    CASE f = REMOTE_HOST         -> [step |-> "parseRemoteHost", quoted |-> quoted, hdr |-> <<>>]
      [] f = REMOTE_LOGNAME      -> [step |-> "parseRemoteLogname", quoted |-> quoted, hdr |-> <<>>]
      [] f = REMOTE_USER         -> [step |-> "parseRemoteUser", quoted |-> quoted, hdr |-> <<>>]
      [] f = TIME                -> [step |-> "parseTime", quoted |-> quoted, hdr |-> <<>>]
      [] f = REQUEST_FIRST_LINE  -> [step |-> "parseRequestFirstLine", quoted |-> quoted, hdr |-> <<>>]
      [] f = STATUS              -> [step |-> "parseStatus", quoted |-> quoted, hdr |-> <<>>]
      [] f = RESPONSE_SIZE       -> [step |-> "parseResponseSize", quoted |-> quoted, hdr |-> <<>>]
      [] f = RESPONSE_SIZE_CLF   -> [step |-> "parseResponseSizeCLF", quoted |-> quoted, hdr |-> <<>>]
      [] f = ELAPSED_TIME_IN_SEC -> [step |-> "parseElapsedTimeInSec", quoted |-> quoted, hdr |-> <<>>]
      [] f = HEADER              ->
            [step |-> "parseHeader", quoted |-> quoted,
             hdr |-> TrimSuffix(TrimPrefix(formatStr, <<"%", "{">>), <<"}", "i">>)]

\* a mutant of makeStateFn: the error of the recursive call is dropped
\* ("next, _ := makeStateFn(expr[1:])")
RECURSIVE MakeStateFn_DropNextErr(_)
MakeStateFn_DropNextErr(expr) ==
    IF Len(expr) = 0
    THEN [fn |-> <<>>, err |-> NoError]
    ELSE LET quoted    == TokenQuoted(expr[1])
             formatStr == TokenFormatStr(expr[1])
             next      == MakeStateFn_DropNextErr(Tail(expr))
             f         == LookupFormat(formatStr)
         IN  IF f \in StepKinds
             THEN [fn |-> <<MakeStep(f, quoted, formatStr)>> \o next.fn, err |-> NoError]
             ELSE [fn |-> <<>>, err |-> Err("format is not supported", formatStr)]

\* a mutant of makeStateFn: the token at hand is looked up before the rest of
\* the expression is compiled, so that the leftmost unsupported token is the
\* one reported
RECURSIVE MakeStateFn_LeftmostFirst(_)
MakeStateFn_LeftmostFirst(expr) ==
    IF Len(expr) = 0
    THEN [fn |-> <<>>, err |-> NoError]
    ELSE LET quoted    == TokenQuoted(expr[1])
             formatStr == TokenFormatStr(expr[1])
             next      == MakeStateFn_LeftmostFirst(Tail(expr))
             f         == LookupFormat(formatStr)
         IN  IF f \notin StepKinds
             THEN [fn |-> <<>>, err |-> Err("format is not supported", formatStr)]
             ELSE IF next.err # NoError
                  THEN [fn |-> <<>>, err |-> next.err]
                  ELSE [fn |-> <<MakeStep(f, quoted, formatStr)>> \o next.fn, err |-> NoError]

\* func makeStateFn(expr []string) (stateFn, error).  The chain of closures is
\* the sequence of its steps, first step first; the nil stateFn is <<>>.
RECURSIVE MakeStateFn(_)
MakeStateFn(expr) ==
    IF Len(expr) = 0
    THEN [fn |-> <<>>, err |-> NoError]
    ELSE LET quoted    == TokenQuoted(expr[1])
             formatStr == TokenFormatStr(expr[1])
             next      == MakeStateFn(Tail(expr))
             f         == LookupFormat(formatStr)
         IN  IF next.err # NoError
             THEN [fn |-> <<>>, err |-> next.err]
             ELSE IF f \in StepKinds
                  THEN [fn |-> <<MakeStep(f, quoted, formatStr)>> \o next.fn, err |-> NoError]
                  ELSE [fn |-> <<>>, err |-> Err("format is not supported", formatStr)]

\* the reader value nil
NilReader == [isNil |-> TRUE, data |-> <<>>]

\* a reader over the bytes data (bytes.NewBuffer, strings.NewReader)
BufferReader(data) == [isNil |-> FALSE, data |-> data]

\* no Parser has been constructed yet
NoParser == [state |-> "none", ctor |-> "none", format |-> <<>>, fn |-> <<>>, err |-> NoError]

\* func CustomParser(r io.Reader, format string) (*Parser, error): state is
\* "ready" when a *Parser is returned and "failed" when nil and an error are
CustomParser(rd, format, ctor) ==
    IF rd.isNil
    THEN [state |-> "failed", ctor |-> ctor, format |-> format, fn |-> <<>>,
          err |-> Err("reader is nil", <<>>)]
    ELSE LET c == MakeStateFn(Split(format, " "))
         IN  IF c.err # NoError
             THEN [state |-> "failed", ctor |-> ctor, format |-> format, fn |-> <<>>,
                   err |-> c.err]
             ELSE [state |-> "ready", ctor |-> ctor, format |-> format, fn |-> c.fn,
                   err |-> NoError]

\* the Parser's bufio.Reader wraps r when a Parser is returned
NewBufio(rd, parser) == IF parser.state = "ready" THEN rd.data ELSE <<>>

\* a call of CustomParser(r, format)
CustomParserCall(format) ==
    /\ p.state = "none"
    /\ p' = CustomParser(r, format, "CustomParser")
    /\ br' = NewBufio(r, p')
    /\ UNCHANGED <<r, results, heap, gen, registryVars, readerVars, firstLineVars>>

\* a call of CombinedParser(r)
CombinedParserCall ==
    /\ p.state = "none"
    /\ p' = CustomParser(r, CombinedLogFromat, "CombinedParser")
    /\ br' = NewBufio(r, p')
    /\ UNCHANGED <<r, results, heap, gen, registryVars, readerVars, firstLineVars>>

\* a call of CommonParser(r)
CommonParserCall ==
    /\ p.state = "none"
    /\ p' = CustomParser(r, CommonLogFormat, "CommonParser")
    /\ br' = NewBufio(r, p')
    /\ UNCHANGED <<r, results, heap, gen, registryVars, readerVars, firstLineVars>>

(***************************************************************************)
(* The library conversions the readers call: strconv.ParseInt and          *)
(* time.Parse with the layout StandardEnglishFormat.                       *)
(***************************************************************************)

DigitChars == <<"0", "1", "2", "3", "4", "5", "6", "7", "8", "9">>

\* c >= '0' && c <= '9'
IsDigit(c) == \E i \in 1..10 : DigitChars[i] = c

\* c - '0'
DigitVal(c) == (CHOOSE i \in 1..10 : DigitChars[i] = c) - 1

\* the number a run of decimal digits denotes
RECURSIVE DigitsValue(_)
DigitsValue(ds) ==
    IF Len(ds) = 0 THEN 0
    ELSE DigitsValue(SubSeq(ds, 1, Len(ds) - 1)) * 10 + DigitVal(ds[Len(ds)])

\* a run of digits without its leading zeros
RECURSIVE StripZeros(_)
StripZeros(ds) ==
    IF Len(ds) > 0 /\ ds[1] = "0" THEN StripZeros(Tail(ds)) ELSE ds

\* the decimal digits of 1<<63 - 1
MaxInt64Digits ==
    <<"9", "2", "2", "3", "3", "7", "2", "0", "3", "6", "8", "5", "4", "7", "7", "5", "8", "0", "7">>

\* the decimal digits of 1<<63
MinInt64Digits ==
    <<"9", "2", "2", "3", "3", "7", "2", "0", "3", "6", "8", "5", "4", "7", "7", "5", "8", "0", "8">>

\* a <= b for two digit runs of the same length
RECURSIVE DigitsLeq(_, _)
DigitsLeq(a, b) ==
    IF Len(a) = 0 THEN TRUE
    ELSE IF a[1] = b[1] THEN DigitsLeq(Tail(a), Tail(b))
    ELSE DigitVal(a[1]) < DigitVal(b[1])

\* the magnitude m, without leading zeros, is at most limit
DigitsAtMost(m, limit) ==
    \/ Len(m) < Len(limit)
    \/ Len(m) = Len(limit) /\ DigitsLeq(m, limit)

\* the magnitude ds fits a signed 64-bit integer of the given sign
FitsInt64(ds, neg) ==
    DigitsAtMost(StripZeros(ds), IF neg THEN MinInt64Digits ELSE MaxInt64Digits)

\* strconv.ParseInt, once the sign is split off: ds must be decimal digits
ParseIntDigits(s, ds, neg) ==
    IF Len(ds) = 0 \/ \E i \in 1..Len(ds) : ~IsDigit(ds[i])
    THEN [val |-> 0, err |-> Err("strconv.ParseInt: invalid syntax", s)]
    ELSE IF ~FitsInt64(ds, neg)
    THEN [val |-> 0, err |-> Err("strconv.ParseInt: value out of range", s)]
    ELSE [val |-> IF neg THEN 0 - DigitsValue(StripZeros(ds)) ELSE DigitsValue(StripZeros(ds)),
          err |-> NoError]

\* strconv.ParseInt(s, 10, 64): an optional sign and one or more decimal digits.
\* A value outside the signed 64-bit range is a range error (val stands at 0
\* there: the clamped value is not representable in the checker's integers).
ParseInt(s) ==
    IF Len(s) > 0 /\ s[1] \in {"+", "-"}
    THEN ParseIntDigits(s, Tail(s), s[1] = "-")
    ELSE ParseIntDigits(s, s, FALSE)

\* strconv.FormatInt(n, 10) for n >= 0: what a log writer prints for a size
RECURSIVE FormatInt(_)
FormatInt(n) ==
    IF n < 10 THEN <<DigitChars[n + 1]>>
    ELSE FormatInt(n \div 10) \o <<DigitChars[(n % 10) + 1]>>

\* the month names of the layout element "Jan"
ShortMonthNames ==
    << <<"J", "a", "n">>, <<"F", "e", "b">>, <<"M", "a", "r">>, <<"A", "p", "r">>,
       <<"M", "a", "y">>, <<"J", "u", "n">>, <<"J", "u", "l">>, <<"A", "u", "g">>,
       <<"S", "e", "p">>, <<"O", "c", "t">>, <<"N", "o", "v">>, <<"D", "e", "c">> >>

\* a time.Time: the wall clock fields and the zone offset in seconds
MakeTime(year, month, day, hour, min, sec, offset) ==
    [year |-> year, month |-> month, day |-> day, hour |-> hour, min |-> min,
     sec |-> sec, offset |-> offset]

\* time.Time{}: January 1, year 1, 00:00:00 UTC
ZeroTime == MakeTime(1, 1, 1, 0, 0, 0, 0)

IsLeap(year) == year % 4 = 0 /\ (year % 100 # 0 \/ year % 400 = 0)

\* the number of days of a month
DaysIn(month, year) ==
    IF month = 2 THEN (IF IsLeap(year) THEN 29 ELSE 28)
    ELSE IF month \in {4, 6, 9, 11} THEN 30 ELSE 31

\* every character of s[a:b] exists and is a digit
AllDigits(s, a, b) == b <= Len(s) /\ \A i \in a..(b - 1) : IsDigit(At(s, i))

\* time.Parse, after the layout matched: the numbers the digit runs denote
\* (q is the index of the ':' that follows the hour) and the range checks
TimeParseFields(s, q, day, month, year, hour, min, sec, zone) ==
    IF hour >= 24 \/ min >= 60 \/ sec >= 60 \/ day < 1 \/ day > DaysIn(month, year)
    THEN [ok |-> FALSE, t |-> ZeroTime]
    ELSE [ok |-> TRUE,
          t |-> MakeTime(year, month, day, hour, min, sec,
                         IF At(s, q + 7) = "-" THEN 0 - zone ELSE zone)]

\* time.Parse, from the hour on: q is the index of the ':' that follows the hour
TimeParseClock(s, q) ==
    IF ~(AllDigits(s, 12, q) /\ Len(s) = q + 12
         /\ At(s, q) = ":" /\ AllDigits(s, q + 1, q + 3)
         /\ At(s, q + 3) = ":" /\ AllDigits(s, q + 4, q + 6)
         /\ At(s, q + 6) = " " /\ At(s, q + 7) \in {"+", "-"}
         /\ AllDigits(s, q + 8, q + 12))
    THEN [ok |-> FALSE, t |-> ZeroTime]
    ELSE TimeParseFields(s, q,
            DigitsValue(Slice(s, 0, 2)),
            CHOOSE m \in 1..12 : ShortMonthNames[m] = Slice(s, 3, 6),
            DigitsValue(Slice(s, 7, 11)),
            DigitsValue(Slice(s, 12, q)),
            DigitsValue(Slice(s, q + 1, q + 3)),
            DigitsValue(Slice(s, q + 4, q + 6)),
            (DigitsValue(Slice(s, q + 8, q + 10)) * 60
                + DigitsValue(Slice(s, q + 10, q + 12))) * 60)

\* time.Parse(StandardEnglishFormat, s) with the layout
\* "02/Jan/2006:15:04:05 -0700": two-digit day, month name, four-digit year,
\* one- or two-digit hour (two when two digits are there), two-digit minute
\* and second, sign and four digits of zone; then the range checks.
\* Fractional seconds are not modelled.
TimeParse(s) ==
    IF ~(AllDigits(s, 0, 2) /\ Len(s) >= 12 /\ At(s, 2) = "/"
         /\ (\E m \in 1..12 : ShortMonthNames[m] = Slice(s, 3, 6))
         /\ At(s, 6) = "/" /\ AllDigits(s, 7, 11) /\ At(s, 11) = ":")
    THEN [ok |-> FALSE, t |-> ZeroTime]
    ELSE TimeParseClock(s, IF AllDigits(s, 12, 14) THEN 14 ELSE 13)

\* two decimal digits of n, zero padded
Pad2(n) == <<DigitChars[(n \div 10) + 1], DigitChars[(n % 10) + 1]>>

\* t.Format(StandardEnglishFormat): what a log writer prints between the brackets
FormatTime(t) ==
    LET z == IF t.offset < 0 THEN 0 - t.offset ELSE t.offset
    IN  Pad2(t.day) \o <<"/">> \o ShortMonthNames[t.month] \o <<"/">>
        \o Pad2(t.year \div 100) \o Pad2(t.year % 100) \o <<":">>
        \o Pad2(t.hour) \o <<":">> \o Pad2(t.min) \o <<":">> \o Pad2(t.sec) \o <<" ">>
        \o <<IF t.offset < 0 THEN "-" ELSE "+">>
        \o Pad2(z \div 3600) \o Pad2((z % 3600) \div 60)

(***************************************************************************)
(* access.go: the primitive readers.  Each result carries panic = TRUE     *)
(* when the Go code indexes or slices out of range at that point.          *)
(***************************************************************************)

\* the result of a reader: value, offset, error, and whether it panicked
Rd(data, off, err) == [data |-> data, off |-> off, err |-> err, panic |-> FALSE]

\* the result of a reader that panicked
ReaderPanic(zero) == [data |-> zero, off |-> 0, err |-> NoError, panic |-> TRUE]

\* extractFromQuotes, from "off = strings.Index(s[1:], "\"")" on, i being that index
ExtractClosing(s, i) ==
    IF i = -1
    THEN Rd(<<>>, -1, Err("missing closing quote", <<>>))
    ELSE Rd(Slice(s, 1, i + 1), i + 1, NoError)

\* func extractFromQuotes(s string) (data string, off int, err error)
ExtractFromQuotes(s) ==
    IF ~InRange(s, 0) THEN ReaderPanic(<<>>)
    ELSE IF At(s, 0) # "\"" THEN Rd(<<>>, 0, Err("want quote", <<At(s, 0)>>))
    ELSE ExtractClosing(s, Index(SliceFrom(s, 1), "\""))

\* a mutant of readString: the "off++" after extractFromQuotes is left out
ReadQuoted_NoIncrement(e) == [data |-> e.data, off |-> e.off, err |-> e.err, panic |-> e.panic]

\* readString, quoted: "data, off, err = extractFromQuotes(input); off++"
ReadQuoted(e) == [data |-> e.data, off |-> e.off + 1, err |-> e.err, panic |-> e.panic]

\* readString, not quoted, i being strings.IndexAny(input, " \n")
ReadUnquoted(input, i) ==
    IF i = -1
    THEN Rd(input, Len(input), NoError)
    ELSE Rd(Slice(input, 0, i), i, NoError)

\* func readString(line string, pos int, quoted bool) (data string, off int, err error)
ReadString(line, pos, quoted) ==
    IF pos > Len(line) THEN ReaderPanic(<<>>)
    ELSE IF quoted THEN ReadQuoted(ExtractFromQuotes(SliceFrom(line, pos)))
    ELSE ReadUnquoted(SliceFrom(line, pos), IndexAny(SliceFrom(line, pos), {" ", "\n"}))

\* readDateTime, from "d, err = time.Parse(...)" on: off is the offset set so far
ReadDateTimeParsed(input, idx, off, tp) ==
    IF ~tp.ok
    THEN Rd(tp.t, off, Err("failed to parse datetime", Slice(input, 1, idx)))
    ELSE Rd(tp.t, off, NoError)

\* readDateTime, from "idx := strings.Index(input, "]")" on: off0 is the offset
\* extractFromQuotes gave (0 when not quoted)
ReadDateTimeBracket(input, idx, off0, quoted) ==
    IF idx = -1 THEN Rd(ZeroTime, off0, Err("missing closing ']'", <<>>))
    ELSE ReadDateTimeParsed(input, idx, IF quoted THEN off0 ELSE idx + 1,
                            TimeParse(Slice(input, 1, idx)))

\* a mutant of readDateTime: the test of the opening bracket is left out
ReadDateTimeInput_NoOpenCheck(input, off0, quoted) ==
    IF ~InRange(input, 0) THEN ReaderPanic(ZeroTime)
    ELSE ReadDateTimeBracket(input, Index(input, "]"), off0, quoted)

\* readDateTime, from "if input[0] != '['" on
ReadDateTimeInput(input, off0, quoted) ==
    IF ~InRange(input, 0) THEN ReaderPanic(ZeroTime)
    ELSE IF At(input, 0) # "[" THEN Rd(ZeroTime, off0, Err("want '['", <<At(input, 0)>>))
    ELSE ReadDateTimeBracket(input, Index(input, "]"), off0, quoted)

\* readDateTime, quoted, after "input, off, err = extractFromQuotes(input)"
ReadDateTimeQuoted(e) ==
    IF e.panic THEN ReaderPanic(ZeroTime)
    ELSE IF e.err # NoError THEN Rd(ZeroTime, e.off, e.err)
    ELSE ReadDateTimeInput(e.data, e.off, TRUE)

\* func readDateTime(line string, pos int, quoted bool) (d time.Time, off int, err error)
ReadDateTime(line, pos, quoted) ==
    IF pos > Len(line) THEN ReaderPanic(ZeroTime)
    ELSE IF quoted THEN ReadDateTimeQuoted(ExtractFromQuotes(SliceFrom(line, pos)))
    ELSE ReadDateTimeInput(SliceFrom(line, pos), 0, FALSE)

\* the length of the run of digits that input starts with (the for loop of readInt)
RECURSIVE DigitRun(_)
DigitRun(input) ==
    IF Len(input) > 0 /\ IsDigit(input[1]) THEN 1 + DigitRun(Tail(input)) ELSE 0

\* a mutant of readInt: the error of strconv.ParseInt is not returned
ReadIntParsed_DropErr(off, n) == Rd(n.val, off, NoError)

\* readInt, from "data, err = strconv.ParseInt(input[:off], 10, 64)" on
ReadIntParsed(off, n) == Rd(n.val, off, n.err)

\* readInt, after the for loop left off at the end of the digit run
ReadIntRun(input, off) == ReadIntParsed(off, ParseInt(Slice(input, 0, off)))

\* readInt, from "if input[0] < '0' || input[0] > '9'" on
ReadIntInput(input) ==
    IF ~InRange(input, 0) THEN ReaderPanic(0)
    ELSE IF ~IsDigit(At(input, 0))
    THEN Rd(0, 0, Err("want digit between 0 and 9", <<At(input, 0)>>))
    ELSE ReadIntRun(input, DigitRun(input))

\* func readInt(line string, pos int, quoted bool) (data int64, off int, err error)
ReadInt(line, pos, quoted) ==
    IF pos > Len(line) THEN ReaderPanic(0)
    ELSE ReadIntInput(SliceFrom(line, pos))

(***************************************************************************)
(* access.go: the record, the step functions and the extraction chain.     *)
(***************************************************************************)

\* make(map[string]string)
EmptyMap == [k \in {} |-> <<>>]

\* m[k] = v
MapSet(m, k, v) == [x \in DOMAIN m \cup {k} |-> IF x = k THEN v ELSE m[x]]

\* func NewRequestFirstLine(raw string) RequestFirstLine
NewRequestFirstLine(raw) ==
    [raw |-> raw, method |-> <<>>, path |-> <<>>, pathParsed |-> <<>>, proto |-> <<>>,
     parsedPath |-> FALSE, parsed |-> FALSE]

\* entry := AccessLogEntry{Cookies: make(...), Headers: make(...), EnvVars: make(...)}
NewEntry ==
    [RemoteIPAddr |-> <<>>, LocalIPAddr |-> <<>>, ResponseSize |-> 0, Cookies |-> EmptyMap,
     ElapsedTime |-> 0, EnvVars |-> EmptyMap, Headers |-> EmptyMap, Filename |-> <<>>,
     RemoteHost |-> <<>>, RequestProto |-> <<>>, KeepAliveRequests |-> 0,
     RemoteLogname |-> <<>>, RequestMethod |-> <<>>, Port |-> <<>>, ProcessID |-> 0,
     QueryString |-> <<>>, RequestFirstLine |-> NewRequestFirstLine(<<>>), Status |-> <<>>,
     Time |-> ZeroTime, ElapsedTimeSec |-> 0, RemoteUser |-> <<>>, URLPath |-> <<>>,
     CanonicalServerName |-> <<>>, ServerName |-> <<>>, BytesReceived |-> 0,
     BytesSent |-> 0]

\* the fields of AccessLogEntry
EntryFields == DOMAIN NewEntry

\* what the first half of a step function yields: the entry after the write,
\* the reader's offset, the error it returns and whether it panicked
Read(entry, rd) == [entry |-> entry, off |-> rd.off, err |-> rd.err, panic |-> rd.panic]

\* "if err != nil { return err }" of every step function: no write then
Failed(rd) == rd.panic \/ rd.err # NoError

\* parseRemoteHost: "entry.RemoteHost = data"
WriteRemoteHost(entry, rd) ==
    IF Failed(rd) THEN Read(entry, rd) ELSE Read([entry EXCEPT !.RemoteHost = rd.data], rd)

\* parseRemoteHost, up to the write
ParseRemoteHost(d, entry, line, pos) ==
    WriteRemoteHost(entry, ReadString(line, pos, d.quoted))

\* parseRemoteLogname: "entry.RemoteLogname = data"
WriteRemoteLogname(entry, rd) ==
    IF Failed(rd) THEN Read(entry, rd) ELSE Read([entry EXCEPT !.RemoteLogname = rd.data], rd)

\* parseRemoteLogname, up to the write
ParseRemoteLogname(d, entry, line, pos) ==
    WriteRemoteLogname(entry, ReadString(line, pos, d.quoted))

\* parseRemoteUser: "entry.RemoteUser = data"
WriteRemoteUser(entry, rd) ==
    IF Failed(rd) THEN Read(entry, rd) ELSE Read([entry EXCEPT !.RemoteUser = rd.data], rd)

\* parseRemoteUser, up to the write
ParseRemoteUser(d, entry, line, pos) ==
    WriteRemoteUser(entry, ReadString(line, pos, d.quoted))

\* parseTime: "entry.Time = data"
WriteTime(entry, rd) ==
    IF Failed(rd) THEN Read(entry, rd) ELSE Read([entry EXCEPT !.Time = rd.data], rd)

\* parseTime, up to the write
ParseTime(d, entry, line, pos) ==
    WriteTime(entry, ReadDateTime(line, pos, d.quoted))

\* parseRequestFirstLine: "entry.RequestFirstLine = NewRequestFirstLine(data)"
WriteRequestFirstLine(entry, rd) ==
    IF Failed(rd) THEN Read(entry, rd)
    ELSE Read([entry EXCEPT !.RequestFirstLine = NewRequestFirstLine(rd.data)], rd)

\* parseRequestFirstLine, up to the write
ParseRequestFirstLine(d, entry, line, pos) ==
    WriteRequestFirstLine(entry, ReadString(line, pos, d.quoted))

\* parseStatus: "entry.Status = data"
WriteStatus(entry, rd) ==
    IF Failed(rd) THEN Read(entry, rd) ELSE Read([entry EXCEPT !.Status = rd.data], rd)

\* parseStatus, up to the write
ParseStatus(d, entry, line, pos) ==
    WriteStatus(entry, ReadString(line, pos, d.quoted))

\* parseResponseSize: "entry.ResponseSize = data"
WriteResponseSize(entry, rd) ==
    IF Failed(rd) THEN Read(entry, rd) ELSE Read([entry EXCEPT !.ResponseSize = rd.data], rd)

\* parseResponseSize, up to the write
ParseResponseSize(d, entry, line, pos) ==
    WriteResponseSize(entry, ReadInt(line, pos, d.quoted))

\* parseResponseSizeCLF: "entry.ResponseSize, err = strconv.ParseInt(data, 10, 64)"
WriteResponseSizeCLFInt(entry, rd, n) ==
    IF n.err # NoError
    THEN [entry |-> [entry EXCEPT !.ResponseSize = n.val], off |-> rd.off,
          err |-> Err("malformed response size", n.err.arg), panic |-> FALSE]
    ELSE Read([entry EXCEPT !.ResponseSize = n.val], rd)

\* a mutant of parseResponseSizeCLF: the test for "-" is left out
WriteResponseSizeCLF_NoDash(entry, rd) ==
    IF Failed(rd) THEN Read(entry, rd)
    ELSE WriteResponseSizeCLFInt(entry, rd, ParseInt(rd.data))

\* parseResponseSizeCLF: "if data != "-" { ... }"
WriteResponseSizeCLF(entry, rd) ==
    IF Failed(rd) THEN Read(entry, rd)
    ELSE IF rd.data = <<"-">> THEN Read(entry, rd)
    ELSE WriteResponseSizeCLFInt(entry, rd, ParseInt(rd.data))

\* parseResponseSizeCLF, up to the end of "if data != "-" { ... }"
ParseResponseSizeCLF(d, entry, line, pos) ==
    WriteResponseSizeCLF(entry, ReadString(line, pos, d.quoted))

\* parseElapsedTimeInSec: "entry.ElapsedTimeSec = data"
WriteElapsedTimeInSec(entry, rd) ==
    IF Failed(rd) THEN Read(entry, rd) ELSE Read([entry EXCEPT !.ElapsedTimeSec = rd.data], rd)

\* parseElapsedTimeInSec, up to the write
ParseElapsedTimeInSec(d, entry, line, pos) ==
    WriteElapsedTimeInSec(entry, ReadInt(line, pos, d.quoted))

\* parseHeader: "entry.Headers[hdr] = data"
WriteHeader(hdr, entry, rd) ==
    IF Failed(rd) THEN Read(entry, rd)
    ELSE Read([entry EXCEPT !.Headers = MapSet(entry.Headers, hdr, rd.data)], rd)

\* parseHeader, up to the write
ParseHeader(d, entry, line, pos) ==
    WriteHeader(d.hdr, entry, ReadString(line, pos, d.quoted))

\* the first half of the step function d: read, and write on success
StepRead(d, entry, line, pos) ==
    CASE d.step = "parseRemoteHost"       -> ParseRemoteHost(d, entry, line, pos)
      [] d.step = "parseRemoteLogname"    -> ParseRemoteLogname(d, entry, line, pos)
      [] d.step = "parseRemoteUser"       -> ParseRemoteUser(d, entry, line, pos)
      [] d.step = "parseTime"             -> ParseTime(d, entry, line, pos)
      [] d.step = "parseRequestFirstLine" -> ParseRequestFirstLine(d, entry, line, pos)
      [] d.step = "parseStatus"           -> ParseStatus(d, entry, line, pos)
      [] d.step = "parseResponseSize"     -> ParseResponseSize(d, entry, line, pos)
      [] d.step = "parseResponseSizeCLF"  -> ParseResponseSizeCLF(d, entry, line, pos)
      [] d.step = "parseElapsedTimeInSec" -> ParseElapsedTimeInSec(d, entry, line, pos)
      [] d.step = "parseHeader"           -> ParseHeader(d, entry, line, pos)

\* the second half of a step function, after the space test left the cursor at
\* after: "if line[newPos] == '\n' || next == nil"
StepStop(line, after, nextIsNil) ==
    IF ~InRange(line, after) THEN [pos |-> after, stop |-> TRUE, panic |-> TRUE]
    ELSE [pos |-> after, stop |-> At(line, after) = "\n" \/ nextIsNil, panic |-> FALSE]

\* a mutant of the step functions: the space after the value is not skipped
StepSkip_NoSpaceSkip(line, newPos, nextIsNil) ==
    IF ~InRange(line, newPos) THEN [pos |-> newPos, stop |-> TRUE, panic |-> TRUE]
    ELSE StepStop(line, newPos, nextIsNil)

\* the second half of a step function at newPos = pos + off:
\* "if line[newPos] == ' ' { newPos++ }", which panics out of range
StepSkip(line, newPos, nextIsNil) ==
    IF ~InRange(line, newPos) THEN [pos |-> newPos, stop |-> TRUE, panic |-> TRUE]
    ELSE StepStop(line, IF At(line, newPos) = " " THEN newPos + 1 ELSE newPos, nextIsNil)

\* the second half of every step function, from "newPos := pos + off": skip
\* one space, then stop at the newline or when next is nil, else go on at pos
StepTail(line, pos, off, nextIsNil) == StepSkip(line, pos + off, nextIsNil)

\* the outcome of running a chain: the entry as the steps left it, the error
\* returned, whether a step panicked, the number of steps whose write was
\* reached and the cursor after the last step
Outcome(entry, err, panic, steps, pos) ==
    [entry |-> entry, err |-> err, panic |-> panic, steps |-> steps, pos |-> pos]

RECURSIVE RunChain(_, _, _, _, _)

\* step i of the chain after its second half gave t
RunChainTail(fn, i, s, line, t) ==
    IF t.panic THEN Outcome(s.entry, NoError, TRUE, i, t.pos)
    ELSE IF t.stop THEN Outcome(s.entry, NoError, FALSE, i, t.pos)
    ELSE RunChain(fn, i + 1, s.entry, line, t.pos)

\* step i of the chain after its first half gave s
RunChainStep(fn, i, entry, line, pos, s) ==
    IF s.panic THEN Outcome(entry, NoError, TRUE, i - 1, pos)
    ELSE IF s.err # NoError THEN Outcome(s.entry, s.err, FALSE, i - 1, pos)
    ELSE RunChainTail(fn, i, s, line, StepTail(line, pos, s.off, i = Len(fn)))

\* the call fn(entry, line, pos) of the i-th step function of the chain
RunChain(fn, i, entry, line, pos) ==
    RunChainStep(fn, i, entry, line, pos, StepRead(fn[i], entry, line, pos))

(***************************************************************************)
(* access.go: Parser.Parse over the Parser's bufio.Reader.                 *)
(***************************************************************************)

\* a mutant of bufio's ReadString: bytes not followed by a newline stay in the
\* buffer when io.EOF is returned
BufioReadStringAt_KeepPartial(buf, i) ==
    IF i = -1
    THEN [line |-> buf, rest |-> buf, err |-> EOF]
    ELSE [line |-> Slice(buf, 0, i + 1), rest |-> SliceFrom(buf, i + 1), err |-> NoError]

\* p.br.ReadString('\n') when the first newline of buf is at index i (-1 for
\* none): the bytes up to and including it; without one, the bytes read and io.EOF
BufioReadStringAt(buf, i) ==
    IF i = -1
    THEN [line |-> buf, rest |-> <<>>, err |-> EOF]
    ELSE [line |-> Slice(buf, 0, i + 1), rest |-> SliceFrom(buf, i + 1), err |-> NoError]

\* p.br.ReadString('\n')
BufioReadString(buf) == BufioReadStringAt(buf, Index(buf, "\n"))

\* what a Parse call hands back: a nil or non-nil *AccessLogEntry (the entry
\* it points to and its address), the error, or a panic
Result(nilRec, entry, addr, err, panic) ==
    [nilRec |-> nilRec, entry |-> entry, addr |-> addr, err |-> err, panic |-> panic]

\* a mutant of Parse: one entry, kept by the Parser, is handed out by every call
EntryAddr_Reused(hp) == 1

\* the address of the entry variable of one Parse call: a new allocation, since
\* &entry escapes
EntryAddr(hp) == hp + 1

\* a mutant of Parse: the partly filled entry is returned with the error
ParseReturn_PartialEntry(out, hp) ==
    IF out.panic THEN Result(TRUE, NewEntry, 0, NoError, TRUE)
    ELSE Result(FALSE, out.entry, EntryAddr(hp), out.err, FALSE)

\* Parse: "if err := p.fn(&entry, line, 0); err != nil { return nil, err };
\* return &entry, nil"
ParseReturn(out, hp) ==
    IF out.panic THEN Result(TRUE, NewEntry, 0, NoError, TRUE)
    ELSE IF out.err # NoError THEN Result(TRUE, NewEntry, 0, out.err, FALSE)
    ELSE Result(FALSE, out.entry, EntryAddr(hp), NoError, FALSE)

\* Parse from "entry := AccessLogEntry{...}" on: calling the nil stateFn panics
ParseLine(fn, line, hp) ==
    IF fn = <<>> THEN Result(TRUE, NewEntry, 0, NoError, TRUE)
    ELSE ParseReturn(RunChain(fn, 1, NewEntry, line, 0), hp)

\* a mutant of Parse: io.EOF of ReadString is not returned, the bytes read
\* before the end of input are parsed as a line
ParseRead_IgnoreEOF(fn, rd, hp) ==
    [res |-> ParseLine(fn, rd.line, hp), rest |-> rd.rest, heap |-> hp + 1]

\* a mutant of Parse: a line that fails to parse is put back into the buffer
ParseRead_UnreadOnError(fn, rd, hp) ==
    IF rd.err # NoError
    THEN [res |-> Result(TRUE, NewEntry, 0, rd.err, FALSE), rest |-> rd.rest, heap |-> hp]
    ELSE IF ParseLine(fn, rd.line, hp).err # NoError
    THEN [res |-> ParseLine(fn, rd.line, hp), rest |-> rd.line \o rd.rest, heap |-> hp + 1]
    ELSE [res |-> ParseLine(fn, rd.line, hp), rest |-> rd.rest, heap |-> hp + 1]

\* Parse after "line, err := p.br.ReadString('\n')" gave rd
ParseRead(fn, rd, hp) ==
    IF rd.err # NoError
    THEN [res |-> Result(TRUE, NewEntry, 0, rd.err, FALSE), rest |-> rd.rest, heap |-> hp]
    ELSE [res |-> ParseLine(fn, rd.line, hp), rest |-> rd.rest, heap |-> hp + 1]

\* func (p *Parser) Parse() (*AccessLogEntry, error): the result, the bytes
\* left in the bufio.Reader and the number of entries allocated
ParseCall(fn, buf, hp) == ParseRead(fn, BufioReadString(buf), hp)

(***************************************************************************)
(* The bounds and the inputs of the model.                                 *)
(***************************************************************************)

\* most lines of an input that holds several lines
MaxLines == 2

\* most space-separated fields of the line of a one-line input
MaxFields == 2

\* most tokens of a format string handed to the compiler
MaxTokens == 3

\* most characters of a generated host token
MaxTokLen == 1

\* most registry operations applied in a row
MaxRegOps == 2

\* most Parse calls on one Parser: two more than the lines of any input
MaxCalls == MaxLines + 2

\* all sequences over S of length at most n
SeqsUpTo(S, n) == UNION {[1..k -> S] : k \in 0..n}

\* strings.Join(ss, sep)
RECURSIVE Join(_, _)
Join(ss, sep) ==
    IF Len(ss) = 0 THEN <<>>
    ELSE IF Len(ss) = 1 THEN ss[1]
    ELSE ss[1] \o sep \o Join(Tail(ss), sep)

\* the concatenation of the strings of ss
Concat(ss) == Join(ss, <<>>)

\* the timestamp of the example log line
ExampleStamp == <<"1", "2", "/", "D", "e", "c", "/", "2", "0", "1", "6", ":", "1", "0", ":", "5", "7", ":", "3", "0", " ", "+", "0", "1", "0", "0">>

\* the format tokens the compiler is tried on: directives with a step function,
\* directives of the table without one, named-field tokens, unknown words and
\* the empty token
Tokens ==
    { <<"%", "h">>, <<"\"", "%", "r", "\"">>, <<"%", "b">>, <<"%", "a">>, <<"%", "O">>, <<"%", "{", ".", ".", ".", "}", "i">>, <<"\"", "%", "{", "R", "e", "f", "e", "r", "e", "r", "}", "i", "\"">>, <<"f", "o", "o">>, <<"b", "a", "r">>, <<>> }

\* the format strings of the compile runs: up to MaxTokens tokens, single spaces
TokenFormats == {Join(ts, <<" ">>) : ts \in SeqsUpTo(Tokens, MaxTokens)}

\* the format strings of the parse runs
ParseFormats ==
    { <<"%", "h", " ", "\"", "%", "r", "\"", " ", "%", "B">>,
      <<"%", "t", " ", "%", "s", " ", "%", "b">>,
      <<"\"", "%", "t", "\"", " ", "%", "s">>,
      <<"%", "l", " ", "%", "u", " ", "%", "{", ".", ".", ".", "}", "i">>,
      <<"%", "h", " ", "f", "o", "o">>,
      <<>>,
      <<"%", "a">>,
      <<"f", "o", "o", " ", "%", "h">> }

\* the lines of the inputs that hold several lines, with their newline
CoreLines ==
    { <<"a", " ", "\"", "b", " ", "c", "\"", " ", "1", "2", "\n">>,
      <<"a", "\n">>,
      <<"a", " ", "b", " ", "1", "2", "\n">>,
      <<"a", " ", "\"", "b", "\"", " ", "x", "\n">>,
      <<"[", "1", "2", "/", "D", "e", "c", "/", "2", "0", "1", "6", ":", "1", "0", ":", "5", "7", ":", "3", "0", " ", "+", "0", "1", "0", "0", "]", " ", "2", "0", "0", " ", "-", "\n">>,
      <<"\"", "[", "1", "2", "/", "D", "e", "c", "/", "2", "0", "1", "6", ":", "1", "0", ":", "5", "7", ":", "3", "0", " ", "+", "0", "1", "0", "0", "]", "\"", " ", "2", "0", "0", "\n">>,
      <<"h", " ", "-", " ", "-", " ", "[", "1", "2", "/", "D", "e", "c", "/", "2", "0", "1", "6", ":", "1", "0", ":", "5", "7", ":", "3", "0", " ", "+", "0", "1", "0", "0", "]", " ", "\"", "G", " ", "/", " ", "H", "\"", " ", "2", "0", "0", " ", "5", "\n">>,
      <<"\"", "a", "\n">>,
      <<"\n">>,
      <<"\"", "\"", "\n">> }

\* what may follow the last newline of an input
Tails == { <<>>, <<"a">> }

\* the fields of the one-line inputs
Pieces ==
    { <<"a">>, <<"-">>, <<"1", "2">>, <<"\"", "b", " ", "c", "\"">>,
      <<"[", "1", "2", "/", "D", "e", "c", "/", "2", "0", "1", "6", ":", "1", "0", ":", "5", "7", ":", "3", "0", " ", "+", "0", "1", "0", "0", "]">>,
      <<"\"", "[", "1", "2", "/", "D", "e", "c", "/", "2", "0", "1", "6", ":", "1", "0", ":", "5", "7", ":", "3", "0", " ", "+", "0", "1", "0", "0", "]", "\"">>,
      <<"\"", "\"">>, <<"\"", "a">>, <<"[", "x", "]">>,
      <<"[", "1", "2", "/", "D", "e", "c", "/", "2", "0", "1", "6", ":", "1", "0", ":", "5", "7", ":", "3", "0", " ", "+", "0", "1", "0", "0">> }

\* inputs of up to MaxLines lines, with or without an unterminated tail
MultiLineInputs == {Concat(ls) \o t : ls \in SeqsUpTo(CoreLines, MaxLines), t \in Tails}

\* inputs of one line of up to MaxFields fields
SingleLineInputs == {Join(ps, <<" ">>) \o <<"\n">> : ps \in SeqsUpTo(Pieces, MaxFields)}

Inputs == MultiLineInputs \cup SingleLineInputs

\* the values a common-format line is generated from
GenHosts == SeqsUpTo({"a", "-", "["}, MaxTokLen)

GenNames == { <<"-">>, <<"a", "]">> }

GenTimes == { MakeTime(2016, 12, 12, 10, 57, 30, 3600), MakeTime(2000, 2, 29, 0, 0, 9, -34200) }

GenRequests == { <<"G", "E", "T", " ", "/", "a", " ", "H", "T", "T", "P", "/", "1", ".", "1">>, <<>>, <<"a", " ", " ", "[", "b", "]">> }

GenStatuses == { <<"2", "0", "0">>, <<"[">> }

GenSizes == { 0, 7, 50122 }

\* no generated line
NoGen ==
    [used |-> FALSE, host |-> <<>>, logname |-> <<>>, user |-> <<>>, time |-> ZeroTime,
     request |-> <<>>, status |-> <<>>, size |-> 0]

Gens ==
    {[used |-> TRUE, host |-> h, logname |-> l, user |-> u, time |-> t, request |-> q,
      status |-> s, size |-> n] :
        h \in GenHosts, l \in GenNames, u \in GenNames, t \in GenTimes,
        q \in GenRequests, s \in GenStatuses, n \in GenSizes}

\* the line a server writes for the values g under `%h %l %u %t "%r" %s %b`
CommonLine(g) ==
    g.host \o <<" ">> \o g.logname \o <<" ">> \o g.user \o <<" ", "[">> \o FormatTime(g.time)
    \o <<"]", " ", "\"">> \o g.request \o <<"\"", " ">> \o g.status \o <<" ">>
    \o FormatInt(g.size) \o <<"\n">>

\* the strings the registry is asked about: the table and strings outside it
RegStrings ==
    {formats[i] : i \in format_beg..UNKNOWN}
    \cup { <<"\"", "%", "{", "R", "e", "f", "e", "r", "e", "r", "}", "i", "\"">>, <<"%", "{", "R", "e", "f", "e", "r", "e", "r", "}", "i">>, <<"f", "o", "o">>, <<"%">>, <<"%", "h", " ">> }

(***************************************************************************)
(* The state machine.                                                      *)
(***************************************************************************)

RegistryIdle ==
    /\ regK0 = UNKNOWN
    /\ regS0 = <<>>
    /\ regK = UNKNOWN
    /\ regS = <<>>
    /\ regOps = <<>>

ParserIdle ==
    /\ p = NoParser
    /\ br = <<>>
    /\ results = <<>>
    /\ heap = 0

\* no reader called
ReadersIdle ==
    /\ rdIn = [line |-> <<>>, pos |-> 0, quoted |-> FALSE]
    /\ rdOut = <<>>

\* no accessor called, on the RequestFirstLine of a new entry
FirstLineIdle ==
    /\ rfl = NewRequestFirstLine(<<>>)
    /\ rflCalls = <<>>

\* a reader, nil or over one of the inputs, and no Parser yet
Init ==
    /\ r \in {NilReader} \cup {BufferReader(d) : d \in Inputs}
    /\ gen = NoGen
    /\ ParserIdle
    /\ ReadersIdle
    /\ FirstLineIdle
    /\ RegistryIdle

\* a reader over one generated common-format line
InitRoundTrip ==
    /\ gen \in Gens
    /\ r = BufferReader(CommonLine(gen))
    /\ ParserIdle
    /\ ReadersIdle
    /\ FirstLineIdle
    /\ RegistryIdle

\* a reader, nil or not, for the compile runs
InitCompile ==
    /\ r \in {NilReader, BufferReader(<<>>), BufferReader(<<"a", "\n">>)}
    /\ gen = NoGen
    /\ ParserIdle
    /\ ReadersIdle
    /\ FirstLineIdle
    /\ RegistryIdle

\* a Format value and a string to start the registry operations from
InitRegistry ==
    /\ r = NilReader
    /\ gen = NoGen
    /\ ParserIdle
    /\ ReadersIdle
    /\ FirstLineIdle
    /\ regK0 \in Formats
    /\ regS0 \in RegStrings
    /\ regK = regK0
    /\ regS = regS0
    /\ regOps = <<>>

\* the Parser and the results after a Parse call that gave c
ParseDone(c) ==
    /\ results' = Append(results, c.res)
    /\ br' = c.rest
    /\ heap' = c.heap

\* a call of p.Parse()
Parse ==
    /\ p.state = "ready"
    /\ Len(results) < MaxCalls
    /\ ParseDone(ParseCall(p.fn, br, heap))
    /\ UNCHANGED <<r, p, gen, registryVars, readerVars, firstLineVars>>

\* a call of LookupFormat on the current string
LookupFormatCall ==
    /\ Len(regOps) < MaxRegOps
    /\ regK' = LookupFormat(regS)
    /\ regOps' = Append(regOps, "LookupFormat")
    /\ UNCHANGED <<regK0, regS0, regS, gen, parserVars, readerVars, firstLineVars>>

\* a call of String on the current Format value
StringCall ==
    /\ Len(regOps) < MaxRegOps
    /\ regS' = FormatString(regK)
    /\ regOps' = Append(regOps, "String")
    /\ UNCHANGED <<regK0, regS0, regK, gen, parserVars, readerVars, firstLineVars>>

Next ==
    \/ \E f \in ParseFormats : CustomParserCall(f)
    \/ CombinedParserCall
    \/ CommonParserCall
    \/ Parse

NextCompile ==
    \/ \E f \in TokenFormats : CustomParserCall(f)
    \/ CombinedParserCall
    \/ CommonParserCall

NextRegistry ==
    \/ LookupFormatCall
    \/ StringCall

\* one reader, one constructor call, then Parse calls
Spec == Init /\ [][Next]_vars

\* the same over generated common-format lines
SpecRoundTrip == InitRoundTrip /\ [][Next]_vars

\* the constructors over the generated format strings
SpecCompile == InitCompile /\ [][NextCompile]_vars

\* the registry operations
SpecRegistry == InitRegistry /\ [][NextRegistry]_vars

(***************************************************************************)
(* The primitive readers and the step functions called on their own, as    *)
(* the tests of parse_test.go call them.                                   *)
(***************************************************************************)

\* the largest cursor position a reader is called at
MaxPos == 2

\* the lines the readers are called on; the long digit run stays beyond the
\* signed 64-bit range from every cursor position up to MaxPos + 1
ReaderLines ==
    { <<"\"", "b", " ", "c", "\"", " ", "1", "2", "\n">>,
      <<"\"", "\"", "\n">>,
      <<"\"", "a", "\n">>,
      <<"a", " ", "\"", "b", "\"", "\n">>,
      <<"1", "2", "\n">>,
      <<"1", "2", " ", "a", "\n">>,
      <<"0", "0", "7", "x", "\n">>,
      <<"a", "1", "2", "\n">>,
      <<"-", "5", "\n">>,
      <<"9", "9", "9", "9", "9", "9", "9", "9", "9", "9", "9", "9", "9", "9", "9", "9", "9", "9", "9", "9", "9", "9", "9", "9", "9", "\n">>,
      <<"0", " ", "\n">>,
      <<"[", "1", "2", "/", "D", "e", "c", "/", "2", "0", "1", "6", ":", "1", "0", ":", "5", "7", ":", "3", "0", " ", "+", "0", "1", "0", "0", "]", "\n">>,
      <<"[", "1", "2", "/", "D", "e", "c", "/", "2", "0", "1", "6", ":", "1", "0", ":", "5", "7", ":", "3", "0", " ", "+", "0", "1", "0", "0", "]", " ", "2", "0", "0", "\n">>,
      <<"[", "1", "2", "/", "D", "e", "c", "/", "2", "0", "1", "6", ":", "1", "0", ":", "5", "7", ":", "3", "0", " ", "+", "0", "1", "0", "0", "\n">>,
      <<"[", "x", "]", "\n">>,
      <<"\"", "[", "1", "2", "/", "D", "e", "c", "/", "2", "0", "1", "6", ":", "1", "0", ":", "5", "7", ":", "3", "0", " ", "+", "0", "1", "0", "0", "]", "\"", " ", "2", "0", "0", "\n">>,
      <<"[", "3", "2", "/", "D", "e", "c", "/", "2", "0", "1", "6", ":", "1", "0", ":", "5", "7", ":", "3", "0", " ", "+", "0", "1", "0", "0", "]", "\n">>,
      <<"[", "1", "2", "/", "D", "e", "c", "/", "2", "0", "1", "6", ":", "1", "0", ":", "5", "7", ":", "3", "0", "]", "\n">>,
      <<"[", "2", "9", "/", "F", "e", "b", "/", "2", "0", "0", "0", ":", "0", "0", ":", "0", "0", ":", "0", "9", " ", "-", "0", "9", "3", "0", "]", " ", "-", "\n">>,
      <<"-", "\n">>,
      <<"-", " ", "5", "\n">>,
      <<"x", "\n">>,
      <<"\n">>,
      <<"-", "-", "\n">>,
      <<"+", "7", "\n">>,
      <<"a">> }

\* the arguments of the reader calls of one run
InitReaders ==
    /\ rdIn \in [line : ReaderLines, pos : 0..MaxPos, quoted : BOOLEAN]
    /\ rdOut = <<>>
    /\ r = NilReader
    /\ gen = NoGen
    /\ ParserIdle
    /\ RegistryIdle
    /\ FirstLineIdle

\* the reader op has not been called yet in this run
NotCalled(op) == \A i \in 1..Len(rdOut) : rdOut[i].op # op

\* what a call leaves behind: the reader's result and what the step function
\* built on it makes of a new entry, up to its write
ReaderCalled(op, res, step) ==
    /\ rdOut' = Append(rdOut, [op |-> op, res |-> res, step |-> step])
    /\ UNCHANGED <<rdIn, parserVars, registryVars, gen, firstLineVars>>

\* readString(line, pos, quoted), and parseStatus on it
ReadStringCall ==
    /\ NotCalled("readString")
    /\ ReaderCalled("readString",
            ReadString(rdIn.line, rdIn.pos, rdIn.quoted),
            ParseStatus(MakeStep(STATUS, rdIn.quoted, <<>>), NewEntry, rdIn.line, rdIn.pos))

\* readDateTime(line, pos, quoted), and parseTime on it
ReadDateTimeCall ==
    /\ NotCalled("readDateTime")
    /\ ReaderCalled("readDateTime",
            ReadDateTime(rdIn.line, rdIn.pos, rdIn.quoted),
            ParseTime(MakeStep(TIME, rdIn.quoted, <<>>), NewEntry, rdIn.line, rdIn.pos))

\* readInt(line, pos, quoted), and parseResponseSize on it
ReadIntCall ==
    /\ NotCalled("readInt")
    /\ ReaderCalled("readInt",
            ReadInt(rdIn.line, rdIn.pos, rdIn.quoted),
            ParseResponseSize(MakeStep(RESPONSE_SIZE, rdIn.quoted, <<>>), NewEntry, rdIn.line, rdIn.pos))

\* parseResponseSizeCLF on a new entry, with the readString result it works on
ParseResponseSizeCLFCall ==
    /\ NotCalled("parseResponseSizeCLF")
    /\ ReaderCalled("parseResponseSizeCLF",
            ReadString(rdIn.line, rdIn.pos, rdIn.quoted),
            ParseResponseSizeCLF(MakeStep(RESPONSE_SIZE_CLF, rdIn.quoted, <<>>), NewEntry, rdIn.line, rdIn.pos))

NextReaders ==
    \/ ReadStringCall
    \/ ReadDateTimeCall
    \/ ReadIntCall
    \/ ParseResponseSizeCLFCall

\* the readers and the step functions on bounded lines
SpecReaders == InitReaders /\ [][NextReaders]_vars

(***************************************************************************)
(* access.go: RequestFirstLine, its lazy parse and its accessors, with     *)
(* url.PathUnescape.  An accessor call gives the object as the call left   *)
(* it and the value returned.                                              *)
(***************************************************************************)

\* the printable ASCII characters, from the space (byte 32) to ~ (byte 126);
\* the grave accent, which a string of this language cannot hold, stands for
\* itself as a byte
Ascii ==
    <<" ", "!", "\"", "#", "$", "%", "&", "'", "(", ")", "*", "+", ",", "-", ".", "/", "0", "1", "2", "3", "4", "5", "6", "7", "8", "9", ":", ";", "<", "=", ">", "?", "@", "A", "B", "C", "D", "E", "F", "G", "H", "I", "J", "K", "L", "M", "N", "O", "P", "Q", "R", "S", "T", "U", "V", "W", "X", "Y", "Z", "[", "\\", "]", "^", "_", <<"byte", 96>>, "a", "b", "c", "d", "e", "f", "g", "h", "i", "j", "k", "l", "m", "n", "o", "p", "q", "r", "s", "t", "u", "v", "w", "x", "y", "z", "{", "|", "}", "~">>

\* the character of a byte; a byte outside printable ASCII stands for itself
ByteChar(n) == IF n >= 32 /\ n <= 126 THEN Ascii[n - 31] ELSE <<"byte", n>>

HexChars == <<"0", "1", "2", "3", "4", "5", "6", "7", "8", "9", "a", "b", "c", "d", "e", "f">>

UpperHexChars == <<"0", "1", "2", "3", "4", "5", "6", "7", "8", "9", "A", "B", "C", "D", "E", "F">>

\* net/url ishex
IsHex(c) == \E i \in 1..16 : HexChars[i] = c \/ UpperHexChars[i] = c

\* net/url unhex
UnHex(c) == (CHOOSE i \in 1..16 : HexChars[i] = c \/ UpperHexChars[i] = c) - 1

\* net/url unescape, second pass: every %XX becomes the byte it writes
RECURSIVE Unescaped(_)
Unescaped(s) ==
    IF Len(s) = 0 THEN <<>>
    ELSE IF s[1] = "%"
    THEN <<ByteChar(UnHex(s[2]) * 16 + UnHex(s[3]))>> \o Unescaped(SubSeq(s, 4, Len(s)))
    ELSE <<s[1]>> \o Unescaped(Tail(s))

\* url.PathUnescape(s): an error when a % is not followed by two hex digits
\* (a + stays a +), else the string with its escapes decoded
PathUnescape(s) ==
    IF \E i \in 1..Len(s) :
            s[i] = "%" /\ ~(i + 2 <= Len(s) /\ IsHex(s[i + 1]) /\ IsHex(s[i + 2]))
    THEN [val |-> <<>>, err |-> Err("invalid URL escape", s)]
    ELSE [val |-> Unescaped(s), err |-> NoError]

\* parse, from "s := strings.Split(rfl.raw, " ")" on
RflParseSplit(o, s) ==
    IF Len(s) # 3 THEN o
    ELSE [o EXCEPT !.method = s[1], !.path = s[2], !.proto = s[3], !.parsed = TRUE]

\* a mutant of parse: the parsed flag is not looked at
RflParse_NoGuard(o) ==
    IF o.raw = <<>> THEN o ELSE RflParseSplit(o, Split(o.raw, " "))

\* func (rfl *RequestFirstLine) parse()
RflParse(o) ==
    IF o.parsed \/ o.raw = <<>> THEN o ELSE RflParseSplit(o, Split(o.raw, " "))

\* what an accessor call gives: the object after the call and the value returned
Returned(o, ret) == [obj |-> o, ret |-> ret]

\* func (rfl *RequestFirstLine) Method() string
RflMethod(o) == Returned(RflParse(o), RflParse(o).method)

\* func (rfl *RequestFirstLine) RawPath() string
RflRawPath(o) == Returned(RflParse(o), RflParse(o).path)

\* Path, from "parsed, err := url.PathUnescape(rfl.path)" on, u being its result
RflPathUnescaped(q, u) ==
    IF u.err # NoError
    THEN Returned([q EXCEPT !.pathParsed = q.path, !.parsedPath = TRUE], q.path)
    ELSE Returned([q EXCEPT !.pathParsed = u.val, !.parsedPath = TRUE], u.val)

\* Path, after "rfl.parse()" left the object q
RflPathParsed(q) ==
    IF q.parsedPath THEN Returned(q, q.pathParsed)
    ELSE RflPathUnescaped(q, PathUnescape(q.path))

\* a mutant of Path: the call of parse is left out
RflPath_NoParse(o) == RflPathParsed(o)

\* func (rfl *RequestFirstLine) Path() string
RflPath(o) == RflPathParsed(RflParse(o))

\* func (rfl *RequestFirstLine) Protocol() string
RflProtocol(o) == Returned(RflParse(o), RflParse(o).proto)

\* func (rfl RequestFirstLine) String() string
RflString(o) == Returned(o, o.raw)

\* most accessor calls on one RequestFirstLine
MaxAccessorCalls == 3

\* another accessor call may be made
MayCall == Len(rflCalls) <= MaxAccessorCalls

\* the raw first lines the accessors are tried on
RawLines ==
    { <<"G", "E", "T", " ", "/", "a", " ", "H", "T", "T", "P", "/", "1", ".", "1">>,
      <<"G", "E", "T", " ", "/", "a", "%", "2", "0", "b", " ", "H", "T", "T", "P", "/", "1", ".", "1">>,
      <<"G", "E", "T", " ", "/", "a", "%", "z", "z", " ", "H">>,
      <<"G", "E", "T", " ", "/", "a", "%", "2", " ", "H">>,
      <<"G", "E", "T", " ", "/", "t", "e", "s", "t">>,
      <<"-">>,
      <<>>,
      <<"G", "E", "T", " ", "/", "a", " ", "b", " ", "H", "T", "T", "P", "/", "1", ".", "1">>,
      <<"G", " ", " ", "H">> }

\* a RequestFirstLine marked parsed by hand, as TestRequestFirstLine_parse makes
\* one, with the extracted fields as given
Preset(raw, method, path, proto) ==
    [NewRequestFirstLine(raw) EXCEPT !.method = method, !.path = path, !.proto = proto,
                                     !.parsed = TRUE]

\* the objects marked parsed by hand
PresetObjects ==
    { Preset(<<"G", "E", "T", " ", "/", "t", "e", "s", "t", " ", "H", "T", "T", "P", "/", "1", ".", "1">>, <<>>, <<>>, <<>>),
      Preset(<<"G", "E", "T", " ", "/", "t", "e", "s", "t", " ", "H", "T", "T", "P", "/", "1", ".", "1">>, <<"P">>, <<"/", "x">>, <<"H">>),
      Preset(<<>>, <<"P">>, <<"/", "x">>, <<"H">>) }

\* the log entry of the making of the object
Made(how, o) == [op |-> how, ret |-> o.raw, obj |-> o]

\* a RequestFirstLine, new or marked parsed by hand, and no accessor called
InitFirstLine ==
    /\ \/ \E raw \in RawLines :
            /\ rfl = NewRequestFirstLine(raw)
            /\ rflCalls = <<Made("NewRequestFirstLine", rfl)>>
       \/ \E o \in PresetObjects :
            /\ rfl = o
            /\ rflCalls = <<Made("preset", rfl)>>
    /\ r = NilReader
    /\ gen = NoGen
    /\ ParserIdle
    /\ RegistryIdle
    /\ ReadersIdle

\* the object and the log after an accessor call that gave c
AccessorCalled(op, c) ==
    /\ rfl' = c.obj
    /\ rflCalls' = Append(rflCalls, [op |-> op, ret |-> c.ret, obj |-> c.obj])
    /\ UNCHANGED <<parserVars, registryVars, gen, readerVars>>

MethodCall ==
    /\ MayCall
    /\ AccessorCalled("Method", RflMethod(rfl))

RawPathCall ==
    /\ MayCall
    /\ AccessorCalled("RawPath", RflRawPath(rfl))

PathCall ==
    /\ MayCall
    /\ AccessorCalled("Path", RflPath(rfl))

ProtocolCall ==
    /\ MayCall
    /\ AccessorCalled("Protocol", RflProtocol(rfl))

FirstLineStringCall ==
    /\ MayCall
    /\ AccessorCalled("String", RflString(rfl))

NextFirstLine ==
    \/ MethodCall
    \/ RawPathCall
    \/ PathCall
    \/ ProtocolCall
    \/ FirstLineStringCall

\* the accessors of one RequestFirstLine, in any order
SpecFirstLine == InitFirstLine /\ [][NextFirstLine]_vars

(***************************************************************************)
(* What the properties below speak of.                                     *)
(***************************************************************************)

\* the tokens of the format string the constructor was given
FormatTokens == Split(p.format, " ")

\* the registry resolves the token, once unquoted, to a defined kind
Recognized(tok) == LookupFormat(TokenFormatStr(tok)) \in DefinedFormats

\* a constructor was called with a reader that is not nil
Constructed == p.state # "none" /\ ~r.isNil

\* the positions of the tokens of the format string for which makeStateFn has
\* no step function
Unsupported ==
    {i \in 1..Len(FormatTokens) :
        LookupFormat(TokenFormatStr(FormatTokens[i])) \notin StepKinds}

\* the position of the rightmost such token
RightmostUnsupported == CHOOSE i \in Unsupported : \A k \in Unsupported : k <= i

\* the newline-terminated lines of data, in order
CompleteLines(data) ==
    LET parts == Split(data, "\n")
    IN  [i \in 1..(Len(parts) - 1) |-> parts[i] \o <<"\n">>]

NumLines(data) == Len(CompleteLines(data))

\* the i-th newline-terminated line of data
NthLine(data, i) == CompleteLines(data)[i]

\* the total length of the first n of the lines ls
RECURSIVE LinesLength(_, _)
LinesLength(ls, n) ==
    IF n = 0 THEN 0 ELSE LinesLength(ls, n - 1) + Len(ls[n])

\* what is left of data once n Parse calls have read from it
RestAfter(data, n) ==
    LET ls == CompleteLines(data)
    IN  IF n <= Len(ls) THEN SliceFrom(data, LinesLength(ls, n)) ELSE <<>>

\* what a Parse call returns at the end of the input
EOFResult == Result(TRUE, NewEntry, 0, EOF, FALSE)

\* the i-th Parse call got a line
GotLine(i) == i <= NumLines(r.data)

\* the outcome of the chain on the line of the i-th call
ChainOutcome(i) == RunChain(p.fn, 1, NewEntry, NthLine(r.data, i), 0)

\* the field of the record a step function writes
FieldOf(step) ==
    CASE step = "parseRemoteHost"       -> "RemoteHost"
      [] step = "parseRemoteLogname"    -> "RemoteLogname"
      [] step = "parseRemoteUser"       -> "RemoteUser"
      [] step = "parseTime"             -> "Time"
      [] step = "parseRequestFirstLine" -> "RequestFirstLine"
      [] step = "parseStatus"           -> "Status"
      [] step = "parseResponseSize"     -> "ResponseSize"
      [] step = "parseResponseSizeCLF"  -> "ResponseSize"
      [] step = "parseElapsedTimeInSec" -> "ElapsedTimeSec"
      [] step = "parseHeader"           -> "Headers"

\* the fields the first n steps of the chain are to write
WrittenFields(n) == {FieldOf(p.fn[k].step) : k \in 1..n}

\* the header names the first n steps of the chain carry
WrittenHeaders(n) == {p.fn[k].hdr : k \in {j \in 1..n : p.fn[j].step = "parseHeader"}}

\* the canonical directive strings of the table
CanonicalStrings == {formats[i] : i \in DefinedFormats}

\* the token without the one pair of double quotes that wraps it, if any
Unwrapped(tok) ==
    IF Len(tok) >= 2 /\ tok[1] = "\"" /\ tok[Len(tok)] = "\""
    THEN SubSeq(tok, 2, Len(tok) - 1)
    ELSE tok

\* the token is %{N}i for some name N, bare or wrapped in one pair of quotes
IsHeaderToken(tok) ==
    /\ Len(Unwrapped(tok)) >= 4
    /\ SubSeq(Unwrapped(tok), 1, 2) = <<"%", "{">>
    /\ SubSeq(Unwrapped(tok), Len(Unwrapped(tok)) - 1, Len(Unwrapped(tok))) = <<"}", "i">>

\* the name N of the token %{N}i
HeaderName(tok) == SubSeq(Unwrapped(tok), 3, Len(Unwrapped(tok)) - 2)

\* the indexes of the spaces of s
SpaceIndexes(s) == {i \in 1..Len(s) : s[i] = " "}

\* s is three parts separated by single spaces (a part may be empty)
ThreeParts(s) == Cardinality(SpaceIndexes(s)) = 2

FirstSpace(s) == CHOOSE i \in SpaceIndexes(s) : \A j \in SpaceIndexes(s) : i <= j

LastSpace(s) == CHOOSE i \in SpaceIndexes(s) : \A j \in SpaceIndexes(s) : j <= i

\* the three parts of such an s
Part1(s) == SubSeq(s, 1, FirstSpace(s) - 1)

Part2(s) == SubSeq(s, FirstSpace(s) + 1, LastSpace(s) - 1)

Part3(s) == SubSeq(s, LastSpace(s) + 1, Len(s))

\* raw paths with what their percent-decoding is, or the raw path again where
\* an escape is malformed
DecodedPaths ==
    { << <<"/", "a">>, <<"/", "a">> >>,
      << <<"/", "a", "%", "2", "0", "b">>, <<"/", "a", " ", "b">> >>,
      << <<"/", "a", "%", "z", "z">>, <<"/", "a", "%", "z", "z">> >>,
      << <<"/", "a", "%", "2">>, <<"/", "a", "%", "2">> >>,
      << <<>>, <<>> >> }

\* how the RequestFirstLine was made, with the object as it was then
MadeAs == rflCalls[1]

\* the accessor calls op made so far
AccessorCalls(op) == {i \in 2..Len(rflCalls) : rflCalls[i].op = op}

\* the reader calls op made so far
CallsOf(op) == {i \in 1..Len(rdOut) : rdOut[i].op = op}

\* the characters of the line from the cursor on
AtCursor == SubSeq(rdIn.line, rdIn.pos + 1, Len(rdIn.line))

\* the number of characters of s before its first space or newline
TokenLen(s) ==
    CHOOSE k \in 0..Len(s) :
        /\ \A i \in 1..k : s[i] \notin {" ", "\n"}
        /\ k = Len(s) \/ s[k + 1] \in {" ", "\n"}

\* the token at the cursor: the characters before the next space or newline
TokenAtCursor == SubSeq(AtCursor, 1, TokenLen(AtCursor))

\* the 0-based index in s, which starts with a double quote, of its next
\* double quote; 0 when it has none
NextQuote(s) ==
    IF \E j \in 2..Len(s) : s[j] = "\""
    THEN (CHOOSE j \in 2..Len(s) : s[j] = "\"" /\ \A k \in 2..(j - 1) : s[k] # "\"") - 1
    ELSE 0

\* the number of digits s starts with
LeadingDigits(s) ==
    CHOOSE k \in 0..Len(s) :
        /\ \A i \in 1..k : s[i] \in {"0", "1", "2", "3", "4", "5", "6", "7", "8", "9"}
        /\ k = Len(s) \/ s[k + 1] \notin {"0", "1", "2", "3", "4", "5", "6", "7", "8", "9"}

\* the digit run ds, which does not start with 0, has more digits than any
\* signed 64-bit integer has
BeyondInt64(ds) == Len(ds) > 19 /\ ds[1] # "0"

\* the number of newline characters of data
NewlineCount(data) == Cardinality({k \in 1..Len(data) : data[k] = "\n"})

\* the bytes of data after its last newline
Unterminated(data) ==
    SubSeq(data,
           1 + (CHOOSE k \in 0..Len(data) :
                    /\ k = 0 \/ data[k] = "\n"
                    /\ \A h \in (k + 1)..Len(data) : data[h] # "\n"),
           Len(data))

\* the instants the timestamps of the reader lines denote
StampTimes == GenTimes

\* bracket interiors that do not match the layout: no timestamp at all, a
\* day the month does not have, and a timestamp without its zone
BadStamps ==
    { <<"x">>,
      <<"3", "2", "/", "D", "e", "c", "/", "2", "0", "1", "6", ":", "1", "0", ":", "5", "7", ":", "3", "0", " ", "+", "0", "1", "0", "0">>,
      <<"1", "2", "/", "D", "e", "c", "/", "2", "0", "1", "6", ":", "1", "0", ":", "5", "7", ":", "3", "0">> }

\* the 1-based index of the first ] of s, 0 when it has none
ClosingBracket(s) ==
    IF \A k \in 1..Len(s) : s[k] # "]" THEN 0
    ELSE CHOOSE k \in 1..Len(s) : s[k] = "]" /\ \A j \in 1..(k - 1) : s[j] # "]"

\* what stands between the opening bracket of s and its first ]
Interior(s) == SubSeq(s, 2, ClosingBracket(s) - 1)

\* s is one or more decimal digits
IsDigits(s) == Len(s) >= 1 /\ \A i \in 1..Len(s) : s[i] \in {"0", "1", "2", "3", "4", "5", "6", "7", "8", "9"}

\* the digit run ds, leading zeros aside, is the decimal writing of n >= 0
Denotes(ds, n) ==
    \E k \in 1..Len(ds) :
        /\ \A i \in 1..(k - 1) : ds[i] = "0"
        /\ SubSeq(ds, k, Len(ds)) = FormatInt(n)

\* s is a decimal integer, with or without a sign
IsNumeric(s) == IsDigits(s) \/ (Len(s) >= 2 /\ s[1] \in {"+", "-"} /\ IsDigits(Tail(s)))

\* most digits of a token whose value the properties state
MaxDigits == 9

\* the numeric token s of at most MaxDigits digits is the writing of n
NumericDenotes(s, n) ==
    IF s[1] = "-" THEN n <= 0 /\ Denotes(Tail(s), 0 - n)
    ELSE IF s[1] = "+" THEN n >= 0 /\ Denotes(Tail(s), n)
    ELSE n >= 0 /\ Denotes(s, n)

\* the text is a well-formed field of the directive the step stands for: a
\* token without a space, or a pair of double quotes around a text that has
\* none, for the string directives; a timestamp in brackets, or in brackets
\* and quotes, for the time directive; digits, or - under the CLF size, for a size
FieldFits(d, text) ==
    CASE d.step = "parseTime" ->
            \E tm \in GenTimes :
                text = (IF d.quoted THEN <<"\"", "[">> ELSE <<"[">>) \o FormatTime(tm)
                       \o (IF d.quoted THEN <<"]", "\"">> ELSE <<"]">>)
      [] d.step = "parseResponseSize" -> IsDigits(text) /\ Len(text) <= MaxDigits
      [] d.step = "parseResponseSizeCLF" ->
            text = <<"-">> \/ (IsDigits(text) /\ Len(text) <= MaxDigits)
      [] d.step = "parseElapsedTimeInSec" -> IsDigits(text) /\ Len(text) <= MaxDigits
      [] OTHER ->
            IF d.quoted
            THEN /\ Len(text) >= 2
                 /\ text[1] = "\"" /\ text[Len(text)] = "\""
                 /\ \A i \in 2..(Len(text) - 1) : text[i] # "\""
            ELSE Len(text) >= 1 /\ \A i \in 1..Len(text) : text[i] # " "

\* the text of a field that fits a string directive, without the quotes of a
\* quoted directive
FieldText(d, text) == IF d.quoted THEN SubSeq(text, 2, Len(text) - 1) ELSE text

\* the number the digits of a field denote
FieldNumber(text) == CHOOSE n \in 0..(10 ^ Len(text) - 1) : Denotes(text, n)

\* the entry once the directive has stored the field that fits it
FieldStored(entry, d, text) ==
    CASE d.step = "parseRemoteHost"    -> [entry EXCEPT !.RemoteHost = FieldText(d, text)]
      [] d.step = "parseRemoteLogname" -> [entry EXCEPT !.RemoteLogname = FieldText(d, text)]
      [] d.step = "parseRemoteUser"    -> [entry EXCEPT !.RemoteUser = FieldText(d, text)]
      [] d.step = "parseStatus"        -> [entry EXCEPT !.Status = FieldText(d, text)]
      [] d.step = "parseRequestFirstLine" ->
            [entry EXCEPT !.RequestFirstLine = NewRequestFirstLine(FieldText(d, text))]
      [] d.step = "parseHeader" ->
            [entry EXCEPT !.Headers = MapSet(entry.Headers, d.hdr, FieldText(d, text))]
      [] d.step = "parseTime" ->
            [entry EXCEPT !.Time =
                CHOOSE tm \in GenTimes :
                    FormatTime(tm) = SubSeq(text, IF d.quoted THEN 3 ELSE 2,
                                            Len(text) - (IF d.quoted THEN 2 ELSE 1))]
      [] d.step = "parseResponseSize" -> [entry EXCEPT !.ResponseSize = FieldNumber(text)]
      [] d.step = "parseResponseSizeCLF" ->
            IF text = <<"-">> THEN entry
            ELSE [entry EXCEPT !.ResponseSize = FieldNumber(text)]
      [] d.step = "parseElapsedTimeInSec" -> [entry EXCEPT !.ElapsedTimeSec = FieldNumber(text)]

\* the entry once the first k directives of the chain have stored the fields fs
RECURSIVE FieldsStored(_, _)
FieldsStored(fs, k) ==
    IF k = 0 THEN NewEntry ELSE FieldStored(FieldsStored(fs, k - 1), p.fn[k], fs[k])

\* the one-line inputs whose line is the fields fs, a space between them
LineOf(fs) == Join(fs, <<" ">>) \o <<"\n">>

(***************************************************************************)
(* The properties.                                                         *)
(***************************************************************************)

\* C1: with a reader that is not nil, CombinedParser and CommonParser both
\* return a Parser and no error.
C1_PresetParsersSucceed ==
    (Constructed /\ p.ctor \in {"CombinedParser", "CommonParser"})
        => (p.state = "ready" /\ p.err = NoError)

\* C2: a line written from host, logname, user, timestamp, quoted request,
\* status and decimal size, parsed under the common format, gives a record
\* whose fields are exactly those values.
C2_CommonRoundTrip ==
    (gen.used /\ p.state = "ready" /\ p.format = CommonLogFormat /\ Len(results) >= 1)
        => /\ ~results[1].nilRec
           /\ results[1].err = NoError
           /\ ~results[1].panic
           /\ results[1].entry.RemoteHost = gen.host
           /\ results[1].entry.RemoteLogname = gen.logname
           /\ results[1].entry.RemoteUser = gen.user
           /\ results[1].entry.Time = gen.time
           /\ results[1].entry.RequestFirstLine.raw = gen.request
           /\ results[1].entry.Status = gen.status
           /\ results[1].entry.ResponseSize = gen.size

\* C2 witness: a generated line whose host is empty and whose request holds
\* spaces was parsed into a record under the common format.
C2_Witness ==
    /\ gen.used
    /\ gen.host = <<>>
    /\ gen.request = <<"G", "E", "T", " ", "/", "a", " ", "H", "T", "T", "P", "/", "1", ".", "1">>
    /\ gen.size = 50122
    /\ p.format = CommonLogFormat
    /\ Len(results) >= 1
    /\ ~results[1].nilRec

\* C3: a format string whose tokens are all recognized by the registry
\* compiles, into a chain with one step per token.
C3_RecognizedTokensCompile ==
    (Constructed /\ \A i \in 1..Len(FormatTokens) : Recognized(FormatTokens[i]))
        => (p.state = "ready" /\ Len(p.fn) = Len(FormatTokens))

\* C4: a format string with at least one unrecognized token does not compile:
\* no Parser is returned, and the error names a token of the format string
\* (without the quotes that wrap it) as not supported.
C4_UnrecognizedTokenFails ==
    (Constructed /\ \E i \in 1..Len(FormatTokens) : ~Recognized(FormatTokens[i]))
        => /\ p.state = "failed"
           /\ p.fn = <<>>
           /\ p.err.kind = "format is not supported"
           /\ \E i \in 1..Len(FormatTokens) :
                /\ p.err.arg = TokenFormatStr(FormatTokens[i])
                /\ LookupFormat(p.err.arg) \notin StepKinds

\* C4 witness: the unrecognized token comes first and every token after it
\* has a step function.
C4_Witness ==
    /\ Constructed
    /\ p.state = "failed"
    /\ Len(FormatTokens) >= 2
    /\ ~Recognized(FormatTokens[1])
    /\ \A i \in 2..Len(FormatTokens) :
            LookupFormat(TokenFormatStr(FormatTokens[i])) \in StepKinds

\* C5: the empty format string compiles, and the parser it gives returns for
\* every line a record that holds nothing but defaults.
C5_EmptyFormatAcceptsAnyLine ==
    (Constructed /\ p.ctor = "CustomParser" /\ p.format = <<>>)
        => /\ p.state = "ready"
           /\ \A i \in 1..Len(results) :
                GotLine(i) => (~results[i].nilRec /\ results[i].entry = NewEntry)

\* C6: once the input is exhausted, every Parse call returns io.EOF and a nil
\* record: the call made with no byte left, and every call after a call that
\* returned io.EOF.
C6_EndOfInputSticky ==
    \A i \in 1..Len(results) :
        (\/ RestAfter(r.data, i - 1) = <<>>
         \/ \E h \in 1..(i - 1) : results[h].err = EOF)
            => results[i] = EOFResult

\* C6 witness: a record was returned, then io.EOF twice in a row.
C6_Witness ==
    \E i \in 1..Len(results) :
        /\ i + 2 <= Len(results)
        /\ ~results[i].nilRec
        /\ results[i + 1] = EOFResult
        /\ results[i + 2] = EOFResult

\* C7: when a step of the chain returns an error on a line, Parse returns a
\* nil record and that very error, and nothing of the entry filled so far.
C7_NoPartialRecord ==
    \A i \in 1..Len(results) :
        (GotLine(i) /\ p.fn # <<>>) =>
            LET out == ChainOutcome(i)
            IN  (~out.panic /\ out.err # NoError)
                    => /\ results[i].nilRec
                       /\ results[i].addr = 0
                       /\ results[i].entry = NewEntry
                       /\ results[i].err = out.err

\* C7 witness: a step after the first failed, the steps before it having
\* written into the entry.
C7_Witness ==
    \E i \in 1..Len(results) :
        /\ GotLine(i)
        /\ p.fn # <<>>
        /\ results[i].nilRec
        /\ LET out == ChainOutcome(i)
           IN  /\ ~out.panic
               /\ out.err # NoError
               /\ out.steps >= 1
               /\ out.entry # NewEntry

C9_FreshRecordPerLine ==
    /\ \A i \in 1..Len(results) :
            ~results[i].nilRec =>
                LET n == ChainOutcome(i).steps
                IN  /\ \A f \in EntryFields \ WrittenFields(n) :
                            results[i].entry[f] = NewEntry[f]
                    /\ DOMAIN results[i].entry.Headers \subseteq WrittenHeaders(n)
    /\ \A i, j \in 1..Len(results) :
            (i # j /\ ~results[i].nilRec /\ ~results[j].nilRec)
                => results[i].addr # results[j].addr

\* C9 witness: a record with several fields written was returned, and after
\* it a record of a shorter line, in which those fields hold their defaults.
C9_Witness ==
    \E i, j \in 1..Len(results) :
        /\ i < j
        /\ ~results[i].nilRec
        /\ ~results[j].nilRec
        /\ results[i].entry.ResponseSize # 0
        /\ results[i].entry.RequestFirstLine # NewRequestFirstLine(<<>>)
        /\ results[j].entry.ResponseSize = 0
        /\ results[j].entry.RequestFirstLine = NewRequestFirstLine(<<>>)
        /\ results[j].entry.RemoteHost # <<>>

\* C10: String and LookupFormat are inverse to each other on the defined
\* kinds and the canonical strings, and a string outside the table looks up
\* to UNKNOWN.
C10_RegistryBijection ==
    /\ (regOps = <<"String", "LookupFormat">> /\ regK0 \in DefinedFormats) => regK = regK0
    /\ (regOps = <<"LookupFormat", "String">> /\ regS0 \in CanonicalStrings) => regS = regS0
    /\ (regOps = <<"LookupFormat">> /\ regS0 \notin CanonicalStrings) => regK = UNKNOWN

C12_NamedHeaderDirectives ==
    (Constructed /\ \A i \in 1..Len(FormatTokens) : IsHeaderToken(FormatTokens[i]))
        => /\ p.state = "ready"
           /\ Len(p.fn) = Len(FormatTokens)
           /\ \A i \in 1..Len(p.fn) :
                /\ p.fn[i].step = "parseHeader"
                /\ p.fn[i].hdr = HeaderName(FormatTokens[i])

\* C13: readDateTime on a non-empty unquoted input: a bracketed timestamp in
\* the layout gives its instant and offset, and consumes up to the ] ; a first
\* character other than [ gives the want-'[' error; no ] gives the
\* missing-closing-bracket error; an interior outside the layout gives the
\* failed-to-parse error; and after each failure parseTime has written no time.
C13_ReadDateTimeOutcomes ==
    \A i \in CallsOf("readDateTime") :
        (~rdIn.quoted /\ rdIn.pos < Len(rdIn.line)) =>
            /\ ~rdOut[i].res.panic
            /\ AtCursor[1] # "[" =>
                    /\ rdOut[i].res.err = Err("want '['", <<AtCursor[1]>>)
                    /\ rdOut[i].step.err = rdOut[i].res.err
                    /\ rdOut[i].step.entry = NewEntry
            /\ (AtCursor[1] = "[" /\ ClosingBracket(AtCursor) = 0) =>
                    /\ rdOut[i].res.err.kind = "missing closing ']'"
                    /\ rdOut[i].step.err = rdOut[i].res.err
                    /\ rdOut[i].step.entry = NewEntry
            /\ (AtCursor[1] = "[" /\ ClosingBracket(AtCursor) # 0) =>
                    /\ \A tm \in StampTimes :
                            Interior(AtCursor) = FormatTime(tm) =>
                                /\ rdOut[i].res.err = NoError
                                /\ rdOut[i].res.data = tm
                                /\ rdOut[i].res.off = ClosingBracket(AtCursor)
                                /\ rdOut[i].step.err = NoError
                                /\ rdOut[i].step.entry = [NewEntry EXCEPT !.Time = tm]
                    /\ Interior(AtCursor) \in BadStamps =>
                            /\ rdOut[i].res.err.kind = "failed to parse datetime"
                            /\ rdOut[i].step.err = rdOut[i].res.err
                            /\ rdOut[i].step.entry = NewEntry

\* C13 witness: readDateTime was called at the start of a line that holds a
\* bracketed timestamp and another field, and gave an instant that is not the
\* zero time.
C13_Witness ==
    \E i \in CallsOf("readDateTime") :
        /\ ~rdIn.quoted
        /\ rdIn.pos = 0
        /\ AtCursor[1] = "["
        /\ ClosingBracket(AtCursor) + 1 < Len(rdIn.line)
        /\ rdOut[i].res.err = NoError
        /\ rdOut[i].step.entry.Time # ZeroTime

\* C14: on a RequestFirstLine made from raw text R, each accessor returns the
\* same value on every call whatever calls came before; String returns R; when
\* R is three space-separated parts, Method, RawPath and Protocol return them
\* and Path returns the percent-decoded raw path, or the raw path where its
\* escapes are malformed.
C14_AccessorsMemoized ==
    Len(rflCalls) >= 1 =>
        /\ \A i, j \in 2..Len(rflCalls) :
                rflCalls[i].op = rflCalls[j].op => rflCalls[i].ret = rflCalls[j].ret
        /\ \A i \in AccessorCalls("String") : rflCalls[i].ret = MadeAs.ret
        /\ (MadeAs.op = "NewRequestFirstLine" /\ ThreeParts(MadeAs.ret)) =>
                /\ \A i \in AccessorCalls("Method") : rflCalls[i].ret = Part1(MadeAs.ret)
                /\ \A i \in AccessorCalls("RawPath") : rflCalls[i].ret = Part2(MadeAs.ret)
                /\ \A i \in AccessorCalls("Protocol") : rflCalls[i].ret = Part3(MadeAs.ret)
                /\ \A i \in AccessorCalls("Path") :
                        \A d \in DecodedPaths :
                            d[1] = Part2(MadeAs.ret) => rflCalls[i].ret = d[2]

\* C14 witness: on a first line whose path holds an escape, Path was called
\* before and after Method and returned the decoded path both times.
C14_Witness ==
    /\ Len(rflCalls) = 4
    /\ MadeAs.op = "NewRequestFirstLine"
    /\ ThreeParts(MadeAs.ret)
    /\ Part2(MadeAs.ret) = <<"/", "a", "%", "2", "0", "b">>
    /\ rflCalls[2].op = "Path"
    /\ rflCalls[3].op = "Method"
    /\ rflCalls[4].op = "Path"
    /\ rflCalls[4].ret = <<"/", "a", " ", "b">>

\* C19: on a RequestFirstLine made from a raw text that is empty or is not
\* three space-separated parts, method, path and protocol stay empty and
\* Method, RawPath, Path and Protocol return the empty string; on one already
\* marked parsed, parse leaves method, path and protocol as they were.
C19_FirstLineParseGuarded ==
    Len(rflCalls) >= 1 =>
        /\ (MadeAs.op = "NewRequestFirstLine" /\ ~ThreeParts(MadeAs.ret)) =>
                /\ rfl.method = <<>> /\ rfl.path = <<>> /\ rfl.proto = <<>>
                /\ \A i \in 2..Len(rflCalls) :
                        rflCalls[i].op \in {"Method", "RawPath", "Path", "Protocol"}
                            => rflCalls[i].ret = <<>>
        /\ MadeAs.obj.parsed =>
                \A i \in 2..Len(rflCalls) :
                    /\ rflCalls[i].obj.method = MadeAs.obj.method
                    /\ rflCalls[i].obj.path = MadeAs.obj.path
                    /\ rflCalls[i].obj.proto = MadeAs.obj.proto

\* C19 witness: an object of three-part raw text, marked parsed with fields of
\* its own, kept them over a Method and a Protocol call.
C19_Witness ==
    /\ Len(rflCalls) >= 3
    /\ MadeAs.op = "preset"
    /\ ThreeParts(MadeAs.ret)
    /\ MadeAs.obj.method = <<"P">>
    /\ \E i, j \in 2..Len(rflCalls) :
            /\ rflCalls[i].op = "Method" /\ rflCalls[i].ret = <<"P">>
            /\ rflCalls[j].op = "Protocol" /\ rflCalls[j].ret = <<"H">>

\* C15: the compile error names the rightmost token of the format string that
\* has no step function, whatever stands to its left: other unsupported
\* tokens, or supported ones only.
C15_RightmostUnsupportedReported ==
    (Constructed /\ Unsupported # {})
        => /\ p.state = "failed"
           /\ p.err.kind = "format is not supported"
           /\ p.err.arg = TokenFormatStr(FormatTokens[RightmostUnsupported])

\* C15 witness: two unsupported tokens of different text, a supported token
\* to the left of the rightmost one, and the error naming the rightmost.
C15_Witness ==
    /\ Constructed
    /\ Len(FormatTokens) = 3
    /\ Unsupported = {1, 3}
    /\ FormatTokens[1] # FormatTokens[3]
    /\ FormatTokens[2] = <<"%", "h">>
    /\ FormatTokens[3] = <<"f", "o", "o">>
    /\ p.err.arg = <<"f", "o", "o">>

\* C16: readString with quoted set, on an input that starts with a double
\* quote and has its next double quote at index j, gives the text between the
\* two (indices 1..j-1) and the offset j+1, by which the step moves the cursor;
\* on an input that starts with another character it fails with the want-quote
\* error; on one with no second double quote it fails with "missing closing
\* quote" and the empty value.
C16_QuotedReader ==
    \A i \in CallsOf("readString") :
        (rdIn.quoted /\ rdIn.pos < Len(rdIn.line)) =>
            /\ ~rdOut[i].res.panic
            /\ (AtCursor[1] = "\"" /\ NextQuote(AtCursor) # 0) =>
                    /\ rdOut[i].res.err = NoError
                    /\ rdOut[i].res.data = SubSeq(AtCursor, 2, NextQuote(AtCursor))
                    /\ rdOut[i].res.off = NextQuote(AtCursor) + 1
                    /\ rdOut[i].step.err = NoError
                    /\ rdOut[i].step.off = NextQuote(AtCursor) + 1
                    /\ rdOut[i].step.entry = [NewEntry EXCEPT !.Status = rdOut[i].res.data]
            /\ AtCursor[1] # "\"" =>
                    /\ rdOut[i].res.err = Err("want quote", <<AtCursor[1]>>)
                    /\ rdOut[i].res.data = <<>>
                    /\ rdOut[i].step.err = rdOut[i].res.err
                    /\ rdOut[i].step.entry = NewEntry
            /\ (AtCursor[1] = "\"" /\ NextQuote(AtCursor) = 0) =>
                    /\ rdOut[i].res.err.kind = "missing closing quote"
                    /\ rdOut[i].res.data = <<>>
                    /\ rdOut[i].step.err = rdOut[i].res.err
                    /\ rdOut[i].step.entry = NewEntry

\* C16 witness: the quoted value holds a space and another field follows the
\* closing quote.
C16_Witness ==
    \E i \in CallsOf("readString") :
        /\ rdIn.quoted
        /\ rdIn.pos = 0
        /\ AtCursor[1] = "\""
        /\ rdOut[i].res.data = <<"b", " ", "c">>
        /\ rdOut[i].res.off = 5
        /\ Len(rdIn.line) > 6

\* C17: readInt on an input whose first character is not a digit fails with
\* the want-digit error, offset 0 and value 0; otherwise its offset is the
\* length of the maximal run of leading digits and its value the number the
\* run denotes; a run beyond the signed 64-bit range is an error, and the step
\* built on readInt then stores nothing in the record.
C17_ReadIntOutcomes ==
    \A i \in CallsOf("readInt") :
        rdIn.pos < Len(rdIn.line) =>
            /\ ~rdOut[i].res.panic
            /\ LeadingDigits(AtCursor) = 0 =>
                    /\ rdOut[i].res.err = Err("want digit between 0 and 9", <<AtCursor[1]>>)
                    /\ rdOut[i].res.off = 0
                    /\ rdOut[i].res.data = 0
                    /\ rdOut[i].step.err = rdOut[i].res.err
                    /\ rdOut[i].step.entry = NewEntry
            /\ LeadingDigits(AtCursor) > 0 =>
                    /\ rdOut[i].res.off = LeadingDigits(AtCursor)
                    /\ LeadingDigits(AtCursor) <= MaxDigits =>
                            /\ rdOut[i].res.err = NoError
                            /\ Denotes(SubSeq(AtCursor, 1, LeadingDigits(AtCursor)), rdOut[i].res.data)
                            /\ rdOut[i].step.err = NoError
                            /\ rdOut[i].step.off = LeadingDigits(AtCursor)
                            /\ rdOut[i].step.entry = [NewEntry EXCEPT !.ResponseSize = rdOut[i].res.data]
                    /\ BeyondInt64(SubSeq(AtCursor, 1, LeadingDigits(AtCursor))) =>
                            /\ rdOut[i].res.err # NoError
                            /\ rdOut[i].step.err = rdOut[i].res.err
                            /\ rdOut[i].step.entry = NewEntry

\* C17 witness: a run of more digits than a signed 64-bit integer has was
\* read, and gave an error.
C17_Witness ==
    \E i \in CallsOf("readInt") :
        /\ rdIn.pos < Len(rdIn.line)
        /\ BeyondInt64(SubSeq(AtCursor, 1, LeadingDigits(AtCursor)))
        /\ rdOut[i].res.err.kind = "strconv.ParseInt: value out of range"
        /\ rdOut[i].res.off = LeadingDigits(AtCursor)

\* C18: a line that holds only the first k fields of a format of n directives,
\* k < n, each field well-formed for its directive, gives a record and no
\* error, with the first k fields stored and all others at their defaults.
C18_EarlyLineEnd ==
    (p.state = "ready" /\ Len(results) >= 1 /\ ~r.isNil) =>
        \A fs \in SeqsUpTo(Pieces, MaxFields) :
            (/\ Len(fs) >= 1
             /\ Len(fs) < Len(p.fn)
             /\ r.data = LineOf(fs)
             /\ \A j \in 1..Len(fs) : FieldFits(p.fn[j], fs[j]))
                => /\ ~results[1].panic
                   /\ ~results[1].nilRec
                   /\ results[1].err = NoError
                   /\ results[1].entry = FieldsStored(fs, Len(fs))

\* C20: under a format in which "%t" in quotes is followed by %s, a line that
\* holds a timestamp in brackets and quotes, a space and a status gives a
\* record whose Time is the timestamp and whose Status is the status: the
\* timestamp step leaves the cursor after the closing quote.
C20_QuotedTimestampCursor ==
    \A i \in 1..Len(results) :
        \A tm \in GenTimes, st \in GenStatuses :
            (/\ p.state = "ready"
             /\ p.format = <<"\"", "%", "t", "\"", " ", "%", "s">>
             /\ GotLine(i)
             /\ NthLine(r.data, i) = <<"\"", "[">> \o FormatTime(tm) \o <<"]", "\"", " ">> \o st \o <<"\n">>)
                => /\ ~results[i].nilRec
                   /\ results[i].err = NoError
                   /\ results[i].entry.Time = tm
                   /\ results[i].entry.Status = st

\* C21: under every format that compiled into a chain, running the chain on a
\* newline-terminated line never indexes the line or a reader's input out of
\* its bounds, and a chain that returns no error leaves the cursor at or
\* before the terminating newline.
C21_CursorSafety ==
    \A i \in 1..Len(results) :
        (p.state = "ready" /\ p.fn # <<>> /\ GotLine(i)) =>
            /\ ~results[i].panic
            /\ LET out == ChainOutcome(i)
               IN  /\ ~out.panic
                   /\ out.err = NoError =>
                        (0 <= out.pos /\ out.pos <= Len(NthLine(r.data, i)) - 1)

====
